---- MODULE Spec2Model ----
(***************************************************************************)
(* Model of the OCHM thumbnail creator: the quadrant image pan/zoom clamp  *)
(* (QuadrantImage), the deck-name text fit (calculateOptimalFontSize), the *)
(* Scryfall router (autocompleteCardName, getCardArts, proxyImage) and the *)
(* usage ledger (recordArtUsage, saveOrUpdateDeckName over the Prisma      *)
(* models CardArtUsage and Deck), the page (HomePage: deck names, thumbnail *)
(* type, card slots, art dialog, export) and the logo layout of            *)
(* ThumbnailCanvas.                                                        *)
(***************************************************************************)
EXTENDS Integers, Sequences, FiniteSets, TLC

VARIABLES
    \* QuadrantImage component state
    image, imgPos, imgScale, wheelCount, quadOp,
    \* calculateOptimalFontSize: its arguments and the binary search's locals
    fitIn, low, high, optimalSize, fitPc,
    \* one proxyImage call: its input, position, timers, requests and outcome
    pxUrl, pxPc, pxElapsed, pxTimer, pxRequests, pxHead, pxBody, pxAborted, pxResult,
    \* one autocompleteCardName or getCardArts call: input, position, outcome
    scIn, scPc, scResult,
    \* the ledger's tables, the mutations issued, the database's commit order
    \* and the clock
    cardArtUsage, deck, reqs, commits, now,
    \* HomePage state: the form, the four card slots, the art dialog
    leftDeckName, rightDeckName, thumbnailType, streamDate, cardStates,
    isArtDialogOpen, currentSlotForArtSelection, artUrlsForSelection,
    selectedCardNameForArt,
    \* the client's cache of getCardArts results and the last download triggered
    artsCache, download,
    \* the logos ThumbnailCanvas holds and the page's custom logo controls
    defaultLogoDetails, customLogoDetails, customLogoUrl, logoX, logoY, logoYOffset,
    \* the file chosen in the upload input, the FileReaders and the custom logo
    \* images still loading, and the src of the custom logo image held
    logoFile, logoReads, logoLoads, customLogoSrc

quadVars == <<image, imgPos, imgScale, wheelCount, quadOp>>

fitVars == <<fitIn, low, high, optimalSize, fitPc>>

proxyVars == <<pxUrl, pxPc, pxElapsed, pxTimer, pxRequests, pxHead, pxBody, pxAborted, pxResult>>

scryVars == <<scIn, scPc, scResult>>

ledgerVars == <<cardArtUsage, deck, reqs, commits, now>>

formVars == <<leftDeckName, rightDeckName, thumbnailType, streamDate>>

cardVars == <<cardStates, isArtDialogOpen, currentSlotForArtSelection,
              artUrlsForSelection, selectedCardNameForArt, artsCache>>

logoVars == <<defaultLogoDetails, customLogoDetails, customLogoUrl, logoX, logoY, logoYOffset,
             logoFile, logoReads, logoLoads, customLogoSrc>>

pageVars == <<formVars, cardVars, download, logoVars>>

vars == <<quadVars, fitVars, proxyVars, scryVars, ledgerVars, pageVars>>

\* What each part of the program leaves alone.
notQuad == <<fitVars, proxyVars, scryVars, ledgerVars, pageVars>>
notFit == <<quadVars, proxyVars, scryVars, ledgerVars, pageVars>>
notProxy == <<quadVars, fitVars, scryVars, ledgerVars, pageVars>>
notScry == <<quadVars, fitVars, proxyVars, ledgerVars, pageVars>>
notLedger == <<quadVars, fitVars, proxyVars, scryVars, pageVars>>
notPage == <<quadVars, fitVars, proxyVars, scryVars>>

-----------------------------------------------------------------------------
(* JavaScript numbers, modelled as exact rationals <<numerator, denominator>> *)
(* in lowest terms with a positive denominator.                              *)

Abs(n) == IF n < 0 THEN -n ELSE n

RECURSIVE GCD(_, _)
GCD(a, b) == IF b = 0 THEN a ELSE GCD(b, a % b)

LCM(a, b) == (a \div GCD(a, b)) * b

Rat(n, d) ==
    LET g == GCD(Abs(n), Abs(d))
        s == IF d < 0 THEN -1 ELSE 1
    IN  <<s * (n \div g), s * (d \div g)>>

RInt(i) == <<i, 1>>

RNeg(a) == <<-a[1], a[2]>>

RAdd(a, b) ==
    LET l == LCM(a[2], b[2])
    IN  Rat(a[1] * (l \div a[2]) + b[1] * (l \div b[2]), l)

RSub(a, b) == RAdd(a, RNeg(b))

RMul(a, b) ==
    LET g1 == GCD(Abs(a[1]), b[2])
        g2 == GCD(Abs(b[1]), a[2])
    IN  Rat((a[1] \div g1) * (b[1] \div g2), (a[2] \div g2) * (b[2] \div g1))

RInv(a) == IF a[1] < 0 THEN <<-a[2], -a[1]>> ELSE <<a[2], a[1]>>

RDiv(a, b) == RMul(a, RInv(b))

RLt(a, b) ==
    LET l == LCM(a[2], b[2])
    IN  a[1] * (l \div a[2]) < b[1] * (l \div b[2])

RLe(a, b) == ~RLt(b, a)

RMax(a, b) == IF RLt(a, b) THEN b ELSE a

-----------------------------------------------------------------------------
(* QuadrantImage: initial cover fit, drag and wheel-zoom with clamping.     *)

CANVAS_WIDTH_DEFAULT == 960
CANVAS_HEIGHT_DEFAULT == 540

\* The quadrant size ThumbnailCanvas hands to each QuadrantImage.
quadrantWidth == RDiv(RInt(CANVAS_WIDTH_DEFAULT), RInt(2))
quadrantHeight == RDiv(RInt(CANVAS_HEIGHT_DEFAULT), RInt(2))

\* Wheel events handled since the image was loaded.
MaxWheel == 3

\* No HTMLImageElement in state (useState<HTMLImageElement | null>(null)).
NoImage == [width |-> 0, height |-> 0]

\* Natural sizes of the images the proxy delivers: the quadrant's own
\* aspect ratio, wider, taller, square-ish, smaller and larger than it.
ImageSizes ==
    { [width |-> 480, height |-> 270], [width |-> 960, height |-> 540],
      [width |-> 240, height |-> 270], [width |-> 960, height |-> 270],
      [width |-> 600, height |-> 300], [width |-> 300, height |-> 300] }

\* Positions a drag can leave the node at before the handler runs.
DragPositions ==
    { [x |-> 0, y |-> 0], [x |-> 50, y |-> 30], [x |-> -100, y |-> -40],
      [x |-> -1000, y |-> -1000], [x |-> 20, y |-> -500] }

\* Pointer positions relative to the quadrant group.
PointerPositions ==
    { [x |-> 0, y |-> 0], [x |-> 480, y |-> 270], [x |-> 240, y |-> 135],
      [x |-> 100, y |-> 200] }

\* WheelEvent.deltaY of a wheel notch.
WheelDeltas == {-100, 100}

scaleBy == <<11, 10>>

ConstrainPositionNoFarEdge(newX, newY, scaledWidth, scaledHeight) ==
    [x |-> IF RLt(RInt(0), newX) THEN RInt(0) ELSE newX,
     y |-> IF RLt(RInt(0), newY) THEN RInt(0) ELSE newY]

constrainPosition(newX, newY, scaledWidth, scaledHeight) ==
    LET x1 == IF RLt(RInt(0), newX) THEN RInt(0) ELSE newX
        x2 == IF RLt(RAdd(x1, scaledWidth), quadrantWidth)
              THEN RSub(quadrantWidth, scaledWidth) ELSE x1
        y1 == IF RLt(RInt(0), newY) THEN RInt(0) ELSE newY
        y2 == IF RLt(RAdd(y1, scaledHeight), quadrantHeight)
              THEN RSub(quadrantHeight, scaledHeight) ELSE y1
        x3 == IF RLt(scaledWidth, quadrantWidth)
              THEN RDiv(RSub(quadrantWidth, scaledWidth), RInt(2)) ELSE x2
        y3 == IF RLt(scaledHeight, quadrantHeight)
              THEN RDiv(RSub(quadrantHeight, scaledHeight), RInt(2)) ELSE y2
    IN  [x |-> x3, y |-> y3]

\* Math.max(width / image.width, height / image.height)
actualMinScale(img) ==
    RMax(RDiv(quadrantWidth, RInt(img.width)), RDiv(quadrantHeight, RInt(img.height)))

\* img.onload with the smaller of the two fitting scales (the image fits
\* inside the quadrant).
ImageOnLoadFitInside(img) ==
    LET aspectRatio == RDiv(RInt(img.width), RInt(img.height))
        quadrantAspectRatio == RDiv(quadrantWidth, quadrantHeight)
        wide == RLt(quadrantAspectRatio, aspectRatio)
        initialScale == IF wide THEN RDiv(quadrantWidth, RInt(img.width))
                        ELSE RDiv(quadrantHeight, RInt(img.height))
        initialX == IF wide
                    THEN RInt(0)
                    ELSE RDiv(RSub(quadrantWidth, RMul(RInt(img.width), initialScale)), RInt(2))
        initialY == IF wide
                    THEN RDiv(RSub(quadrantHeight, RMul(RInt(img.height), initialScale)), RInt(2))
                    ELSE RInt(0)
    IN  /\ image' = img
        /\ imgPos' = [x |-> initialX, y |-> initialY]
        /\ imgScale' = [scaleX |-> initialScale, scaleY |-> initialScale]
        /\ wheelCount' = 0
        /\ quadOp' = "load"
        /\ UNCHANGED notQuad

\* img.onload: scale to cover the quadrant, centre the overflowing axis.
ImageOnLoad(img) ==
    LET aspectRatio == RDiv(RInt(img.width), RInt(img.height))
        quadrantAspectRatio == RDiv(quadrantWidth, quadrantHeight)
        wide == RLt(quadrantAspectRatio, aspectRatio)
        initialScale == IF wide THEN RDiv(quadrantHeight, RInt(img.height))
                        ELSE RDiv(quadrantWidth, RInt(img.width))
        initialX == IF wide
                    THEN RDiv(RSub(quadrantWidth, RMul(RInt(img.width), initialScale)), RInt(2))
                    ELSE RInt(0)
        initialY == IF wide
                    THEN RInt(0)
                    ELSE RDiv(RSub(quadrantHeight, RMul(RInt(img.height), initialScale)), RInt(2))
    IN  /\ image' = img
        /\ imgPos' = [x |-> initialX, y |-> initialY]
        /\ imgScale' = [scaleX |-> initialScale, scaleY |-> initialScale]
        /\ wheelCount' = 0
        /\ quadOp' = "load"
        /\ UNCHANGED notQuad

\* setImage(null): the proxy failed, the data failed to decode, or src was cleared.
ImageCleared ==
    /\ image # NoImage
    /\ image' = NoImage
    /\ quadOp' = "clear"
    /\ UNCHANGED <<imgPos, imgScale, wheelCount, notQuad>>

\* onDragMove of the rendered KonvaImage; (nodeX, nodeY) is where the drag put the node.
handleDragMove(nodeX, nodeY) ==
    /\ image # NoImage
    /\ LET scaledWidth == RMul(RInt(image.width), imgScale.scaleX)
           scaledHeight == RMul(RInt(image.height), imgScale.scaleY)
       IN  imgPos' = constrainPosition(RInt(nodeX), RInt(nodeY), scaledWidth, scaledHeight)
    /\ quadOp' = "drag"
    /\ UNCHANGED <<image, imgScale, wheelCount, notQuad>>

\* onWheel of the rendered KonvaImage.
handleWheel(deltaY, pointer) ==
    /\ image # NoImage
    /\ wheelCount < MaxWheel
    /\ LET oldScale == imgScale.scaleX
           px == RInt(pointer.x)
           py == RInt(pointer.y)
           mousePointToX == RDiv(RSub(px, imgPos.x), oldScale)
           mousePointToY == RDiv(RSub(py, imgPos.y), oldScale)
           newScale == IF deltaY > 0 THEN RDiv(oldScale, scaleBy) ELSE RMul(oldScale, scaleBy)
           effectiveNewScale == RMax(newScale, actualMinScale(image))
           newX == RSub(px, RMul(mousePointToX, effectiveNewScale))
           newY == RSub(py, RMul(mousePointToY, effectiveNewScale))
           scaledWidth == RMul(RInt(image.width), effectiveNewScale)
           scaledHeight == RMul(RInt(image.height), effectiveNewScale)
       IN  /\ imgScale' = [scaleX |-> effectiveNewScale, scaleY |-> effectiveNewScale]
           /\ imgPos' = constrainPosition(newX, newY, scaledWidth, scaledHeight)
    /\ wheelCount' = wheelCount + 1
    /\ quadOp' = "wheel"
    /\ UNCHANGED <<image, notQuad>>

InitQuadrant ==
    /\ image = NoImage
    /\ imgPos = [x |-> RInt(0), y |-> RInt(0)]
    /\ imgScale = [scaleX |-> RInt(1), scaleY |-> RInt(1)]
    /\ wheelCount = 0
    /\ quadOp = "none"

NextQuadrant ==
    \/ \E img \in ImageSizes : ImageOnLoad(img)
    \/ ImageCleared
    \/ \E p \in DragPositions : handleDragMove(p.x, p.y)
    \/ \E d \in WheelDeltas, p \in PointerPositions : handleWheel(d, p)


\* C1: while an image is rendered in a quadrant, after the initial fit and any
\* drags and wheel zooms its rendered rectangle contains the quadrant (x <= 0,
\* y <= 0, x + iw*s >= W, y + ih*s >= H) and the scale is at least the covering
\* minimum max(W/iw, H/ih).
C1_QuadrantCovered ==
    image # NoImage =>
        /\ RLe(imgPos.x, RInt(0))
        /\ RLe(imgPos.y, RInt(0))
        /\ RLe(quadrantWidth, RAdd(imgPos.x, RMul(RInt(image.width), imgScale.scaleX)))
        /\ RLe(quadrantHeight, RAdd(imgPos.y, RMul(RInt(image.height), imgScale.scaleY)))
        /\ RLe(actualMinScale(image), imgScale.scaleX)
        /\ imgScale.scaleX = imgScale.scaleY

\* Witness of C1: a zoomed-in image that a drag tried to pull off the quadrant.
C1_Witness ==
    /\ image # NoImage
    /\ quadOp = "drag"
    /\ wheelCount >= 2
    /\ RLt(actualMinScale(image), imgScale.scaleX)
    /\ imgPos.x = RSub(quadrantWidth, RMul(RInt(image.width), imgScale.scaleX))
    /\ RLt(imgPos.x, RInt(0))

\* C22: on image load the image is scaled uniformly by max(W/iw, H/ih); the
\* axis that fits exactly has offset 0 and the other axis is centered
\* (offset = (quadrant size - scaled size)/2 <= 0), so the image exactly
\* covers the quadrant with its aspect ratio preserved.
C22_InitialCoverFit ==
    quadOp = "load" =>
        LET s == imgScale.scaleX
            sw == RMul(RInt(image.width), s)
            sh == RMul(RInt(image.height), s)
            byWidth == RDiv(quadrantWidth, RInt(image.width))
            byHeight == RDiv(quadrantHeight, RInt(image.height))
        IN  /\ imgScale.scaleY = s
            /\ s = (IF RLt(byWidth, byHeight) THEN byHeight ELSE byWidth)
            /\ \/ /\ sw = quadrantWidth
                  /\ imgPos.x = RInt(0)
                  /\ imgPos.y = RDiv(RSub(quadrantHeight, sh), RInt(2))
                  /\ RLe(imgPos.y, RInt(0))
               \/ /\ sh = quadrantHeight
                  /\ imgPos.y = RInt(0)
                  /\ imgPos.x = RDiv(RSub(quadrantWidth, sw), RInt(2))
                  /\ RLe(imgPos.x, RInt(0))
            /\ RLe(quadrantWidth, RAdd(imgPos.x, sw))
            /\ RLe(quadrantHeight, RAdd(imgPos.y, sh))

\* Witness of C22: a 960 x 270 image just loaded: scale 1, the height fits
\* exactly, 240 is cut off on either side.
C22_Witness ==
    /\ quadOp = "load"
    /\ image = [width |-> 960, height |-> 270]
    /\ imgScale.scaleX = RInt(1)
    /\ imgPos = [x |-> RInt(-240), y |-> RInt(0)]

-----------------------------------------------------------------------------
(* calculateOptimalFontSize: greedy word wrap and binary search on the size. *)

TEXT_FONT_SIZE_MAX == 48
TEXT_FONT_SIZE_MIN == 24
PURPLE_BAR_HEIGHT == 98
TARGET_LOGO_HEIGHT == 294

\* Words per text and the word lengths (in characters) the texts draw on.
MaxWords == 4
WordLengths == {0, 4, 9, 14, 30}

RECURSIVE SeqsUpTo(_, _)
SeqsUpTo(S, n) ==
    IF n = 0 THEN {<<>>}
    ELSE LET shorter == SeqsUpTo(S, n - 1)
         IN  shorter \cup {Append(q, x) : q \in shorter, x \in S}

\* text.split(' ') never returns an empty array: a text is its non-empty
\* sequence of words, each word given by its length.
FitTexts == SeqsUpTo(WordLengths, MaxWords) \ {<<>>}

\* Widths of the deck-name regions: left and right region with the fallback
\* logo width, and a narrow one.
FitMaxWidths == {293, 313, 120}
FitMaxHeights == {PURPLE_BAR_HEIGHT, 30}
FitRanges == { [min |-> TEXT_FONT_SIZE_MIN, max |-> TEXT_FONT_SIZE_MAX],
               [min |-> 10, max |-> 13] }

FitInputs ==
    [text : FitTexts, maxWidth : FitMaxWidths, maxHeight : FitMaxHeights,
     range : FitRanges, hasContext : BOOLEAN]

RECURSIVE SumSeq(_)
SumSeq(q) == IF q = <<>> THEN 0 ELSE Head(q) + SumSeq(Tail(q))

\* Length in characters of the words of a line joined by single spaces.
LineLen(line) == IF line = <<>> THEN 0 ELSE SumSeq(line) + Len(line) - 1

\* Advance of one character in units of the font size (bold, upper case).
CharAdvance == <<1, 2>>

\* context.measureText(line).width with context.font set to fontSize px.
measureText(line, fontSize) == RMul(RInt(LineLen(line) * fontSize), CharAdvance)

\* The for-loop of a wrap that lets every line after the first run to twice
\* the width.
RECURSIVE wrapWordsWiderAfterFirst(_, _, _, _, _)
wrapWordsWiderAfterFirst(words, lines, currentLine, fontSize, maxWidth) ==
    IF words = <<>>
    THEN IF LineLen(currentLine) > 0 THEN Append(lines, currentLine) ELSE lines
    ELSE LET word == Head(words)
             testLine == IF LineLen(currentLine) > 0
                         THEN Append(currentLine, word) ELSE <<word>>
             limit == IF lines = <<>> THEN maxWidth ELSE 2 * maxWidth
         IN  IF RLe(measureText(testLine, fontSize), RInt(limit))
             THEN wrapWordsWiderAfterFirst(Tail(words), lines, testLine, fontSize, maxWidth)
             ELSE IF LineLen(currentLine) > 0
                  THEN wrapWordsWiderAfterFirst(Tail(words), Append(lines, currentLine),
                                                <<word>>, fontSize, maxWidth)
                  ELSE wrapWordsWiderAfterFirst(Tail(words), Append(lines, <<word>>), <<>>,
                                                fontSize, maxWidth)

\* The for-loop of a wrap that, on overflow, commits the current line and
\* starts the next line empty (the overflowing word is lost).
RECURSIVE wrapWordsDropsOverflow(_, _, _, _, _)
wrapWordsDropsOverflow(words, lines, currentLine, fontSize, maxWidth) ==
    IF words = <<>>
    THEN IF LineLen(currentLine) > 0 THEN Append(lines, currentLine) ELSE lines
    ELSE LET word == Head(words)
             testLine == IF LineLen(currentLine) > 0
                         THEN Append(currentLine, word) ELSE <<word>>
         IN  IF RLe(measureText(testLine, fontSize), RInt(maxWidth))
             THEN wrapWordsDropsOverflow(Tail(words), lines, testLine, fontSize, maxWidth)
             ELSE IF LineLen(currentLine) > 0
                  THEN wrapWordsDropsOverflow(Tail(words), Append(lines, currentLine), <<>>,
                                              fontSize, maxWidth)
                  ELSE wrapWordsDropsOverflow(Tail(words), Append(lines, <<word>>), <<>>,
                                              fontSize, maxWidth)

\* The for-loop of calculateTextHeight over the words still to place.
RECURSIVE wrapWords(_, _, _, _, _)
wrapWords(words, lines, currentLine, fontSize, maxWidth) ==
    IF words = <<>>
    THEN IF LineLen(currentLine) > 0 THEN Append(lines, currentLine) ELSE lines
    ELSE LET word == Head(words)
             testLine == IF LineLen(currentLine) > 0
                         THEN Append(currentLine, word) ELSE <<word>>
         IN  IF RLe(measureText(testLine, fontSize), RInt(maxWidth))
             THEN wrapWords(Tail(words), lines, testLine, fontSize, maxWidth)
             ELSE IF LineLen(currentLine) > 0
                  THEN wrapWords(Tail(words), Append(lines, currentLine), <<word>>,
                                 fontSize, maxWidth)
                  ELSE wrapWords(Tail(words), Append(lines, <<word>>), <<>>,
                                 fontSize, maxWidth)

wrapLines(text, fontSize, maxWidth) == wrapWords(text, <<>>, <<>>, fontSize, maxWidth)

\* lines.length * (fontSize * 1.2)
calculateTextHeight(text, fontSize, maxWidth) ==
    RMul(RInt(Len(wrapLines(text, fontSize, maxWidth)) * fontSize), <<6, 5>>)

\* typeof document === 'undefined', or no 2d context: return maxFontSize.
FitNoContext ==
    /\ fitPc = "start"
    /\ ~fitIn.hasContext
    /\ optimalSize' = fitIn.range.max
    /\ fitPc' = "done"
    /\ UNCHANGED <<fitIn, low, high, notFit>>

\* let low = minFontSize; let high = maxFontSize; let optimalSize = maxFontSize
FitStart ==
    /\ fitPc = "start"
    /\ fitIn.hasContext
    /\ low' = fitIn.range.min
    /\ high' = fitIn.range.max
    /\ optimalSize' = fitIn.range.max
    /\ fitPc' = "loop"
    /\ UNCHANGED <<fitIn, notFit>>

\* One iteration of while (low <= high).
FitLoop ==
    /\ fitPc = "loop"
    /\ low <= high
    /\ LET mid == (low + high) \div 2
           textHeight == calculateTextHeight(fitIn.text, mid, fitIn.maxWidth)
       IN  IF RLe(textHeight, RInt(fitIn.maxHeight))
           THEN /\ optimalSize' = mid
                /\ low' = mid + 1
                /\ high' = high
           ELSE /\ high' = mid - 1
                /\ UNCHANGED <<optimalSize, low>>
    /\ UNCHANGED <<fitIn, fitPc, notFit>>

\* return optimalSize
FitReturn ==
    /\ fitPc = "loop"
    /\ low > high
    /\ fitPc' = "done"
    /\ UNCHANGED <<fitIn, low, high, optimalSize, notFit>>

IdleFit ==
    /\ fitIn = [text |-> <<0>>, maxWidth |-> 293, maxHeight |-> PURPLE_BAR_HEIGHT,
                range |-> [min |-> TEXT_FONT_SIZE_MIN, max |-> TEXT_FONT_SIZE_MAX],
                hasContext |-> FALSE]
    /\ low = 0
    /\ high = 0
    /\ optimalSize = 0
    /\ fitPc = "idle"

InitFit ==
    /\ fitIn \in FitInputs
    /\ low = 0
    /\ high = 0
    /\ optimalSize = 0
    /\ fitPc = "start"

NextFit ==
    \/ FitNoContext
    \/ FitStart
    \/ FitLoop
    \/ FitReturn


\* Whether the wrapped text at fontSize is at most the input's maximum height.
FitsAt(in, fontSize) ==
    RLe(calculateTextHeight(in.text, fontSize, in.maxWidth), RInt(in.maxHeight))

\* C2: with text measurement available, the size S returned lies in
\* [min, max], the text wrapped at S is at most max height, and at S+1 (when
\* S+1 <= max) it is not: S is the largest fitting size in the range.
C2_ReturnsLargestFitting ==
    (fitPc = "done" /\ fitIn.hasContext) =>
        /\ optimalSize \in fitIn.range.min .. fitIn.range.max
        /\ FitsAt(fitIn, optimalSize)
        /\ (optimalSize + 1 <= fitIn.range.max => ~FitsAt(fitIn, optimalSize + 1))

\* A line as the string the loop holds: its words joined by single spaces
\* (`${currentLine} ${word}`), every character of a word written "x".
RECURSIVE joinWords(_)
joinWords(line) ==
    IF line = <<>> THEN <<>>
    ELSE IF Len(line) = 1 THEN [i \in 1..Head(line) |-> "x"]
    ELSE [i \in 1..Head(line) |-> "x"] \o <<" ">> \o joinWords(Tail(line))

\* str.split(' '): the words between the spaces, each given by its length;
\* word is the length of the word being read.
RECURSIVE splitSpaces(_, _)
splitSpaces(str, word) ==
    IF str = <<>> THEN <<word>>
    ELSE IF Head(str) = " " THEN <<word>> \o splitSpaces(Tail(str), 0)
    ELSE splitSpaces(Tail(str), word + 1)

\* calculateTextHeight's wrap run on one of its own lines.
Rewrapped(line, fontSize, maxWidth) ==
    wrapLines(splitSpaces(joinWords(line), 0), fontSize, maxWidth)

\* C16: the greedy word wrap is idempotent: wrapping again, at the same
\* font size and width, any line the wrap produced gives that one line back
\* unchanged. Stated at every size the binary search is about to wrap at.
C16_WrapIdempotent ==
    (fitPc = "loop" /\ low <= high) =>
        LET fontSize == (low + high) \div 2
            lines == wrapLines(fitIn.text, fontSize, fitIn.maxWidth)
        IN  \A i \in 1..Len(lines) :
                LET again == Rewrapped(lines[i], fontSize, fitIn.maxWidth)
                IN  /\ Len(again) = 1
                    /\ joinWords(again[1]) = joinWords(lines[i])

\* A text wrapped into a line of several words with an empty word among them
\* and a line that is one word wider than the region.
C16_Witness ==
    /\ fitPc = "loop" /\ low <= high
    /\ LET fontSize == (low + high) \div 2
           lines == wrapLines(fitIn.text, fontSize, fitIn.maxWidth)
       IN  /\ \E i \in 1..Len(lines) :
                 Len(lines[i]) >= 3 /\ \E k \in 1..Len(lines[i]) : lines[i][k] = 0
           /\ \E i \in 1..Len(lines) :
                 /\ Len(lines[i]) = 1
                 /\ ~RLe(measureText(lines[i], fontSize), RInt(fitIn.maxWidth))

\* The lines joined with single spaces, as a string.
RECURSIVE joinLines(_)
joinLines(lines) ==
    IF lines = <<>> THEN <<>>
    ELSE IF Len(lines) = 1 THEN joinWords(Head(lines))
    ELSE joinWords(Head(lines)) \o <<" ">> \o joinLines(Tail(lines))

\* The words of the lines, line after line.
RECURSIVE wordsOf(_)
wordsOf(lines) == IF lines = <<>> THEN <<>> ELSE Head(lines) \o wordsOf(Tail(lines))

\* The words that are not empty strings, in order.
NonEmptyWords(words) == SelectSeq(words, LAMBDA w : w > 0)

\* Every line of two or more words is at most maxWidth wide, and every word
\* of the text wider than maxWidth is a line of its own.
WrapWidths(text, lines, fontSize, maxWidth) ==
    /\ \A i \in 1..Len(lines) :
           Len(lines[i]) >= 2 => RLe(measureText(lines[i], fontSize), RInt(maxWidth))
    /\ \A i \in 1..Len(lines) : \A k \in 1..Len(lines[i]) :
           ~RLe(measureText(<<lines[i][k]>>, fontSize), RInt(maxWidth))
               => Len(lines[i]) = 1
    /\ \A k \in 1..Len(text) :
           ~RLe(measureText(<<text[k]>>, fontSize), RInt(maxWidth))
               => \E i \in 1..Len(lines) : lines[i] = <<text[k]>>

-----------------------------------------------------------------------------
(* scryfallRouter.proxyImage: allow-list, HEAD size check, GET, body check. *)

MAX_IMAGE_SIZE_BYTES == 10 * 1024 * 1024
FETCH_TIMEOUT_MS == 5000

\* Granularity of the clock, and how long the model lets an await last.
TickMs == 1000
MaxWaitMs == 7000

ALLOWED_IMAGE_DOMAINS == {"cards.scryfall.io", "c1.scryfall.com", "svgs.scryfall.io"}

\* Host parts as written in the input; new URL(...).hostname lower-cases them.
InputHosts ==
    { "cards.scryfall.io", "c1.scryfall.com", "svgs.scryfall.io", "CARDS.SCRYFALL.IO",
      "scryfall.io", "api.scryfall.com", "cards.scryfall.io.evil.example",
      "evil.example" }

hostname(url) ==
    IF url.host = "CARDS.SCRYFALL.IO" THEN "cards.scryfall.io" ELSE url.host

\* imageUrl inputs: strings z.string().url() accepts, and one it rejects.
ProxyInputs == [wellFormed : BOOLEAN, host : InputHosts]

\* The content-length header of the HEAD response: absent, not a number, or a number.
ContentLengths ==
    { [present |-> FALSE, numeric |-> FALSE, n |-> 0],
      [present |-> TRUE, numeric |-> FALSE, n |-> 0] }
    \cup [present : {TRUE}, numeric : {TRUE},
          n : {1024, MAX_IMAGE_SIZE_BYTES, MAX_IMAGE_SIZE_BYTES + 1}]

BodySizes == {1024, MAX_IMAGE_SIZE_BYTES, MAX_IMAGE_SIZE_BYTES + 1}

NoHead == [received |-> FALSE, ok |-> FALSE,
           contentLength |-> [present |-> FALSE, numeric |-> FALSE, n |-> 0]]
NoBody == -1

Pending == [kind |-> "pending", code |-> "", size |-> 0]
Failure(code) == [kind |-> "error", code |-> code, size |-> 0]
Success(size) == [kind |-> "ok", code |-> "", size |-> size]

\* ALLOWED_IMAGE_DOMAINS.includes(url.hostname), any host passing
HostAllowedAny(url) == TRUE

\* ALLOWED_IMAGE_DOMAINS.includes(url.hostname)
HostAllowed(url) == hostname(url) \in ALLOWED_IMAGE_DOMAINS

\* contentLength && parseInt(contentLength, 10) > MAX_IMAGE_SIZE_BYTES
HeadTooLarge(contentLength) ==
    contentLength.present /\ contentLength.numeric /\ contentLength.n > MAX_IMAGE_SIZE_BYTES

\* imageBuffer.byteLength > MAX_IMAGE_SIZE_BYTES, with the comparison dropped
BodyTooLargeNever(size) == FALSE

\* imageBuffer.byteLength > MAX_IMAGE_SIZE_BYTES
BodyTooLarge(size) == size > MAX_IMAGE_SIZE_BYTES

\* Input validation, the allow-list check, then setTimeout and the HEAD fetch.
ProxyStart ==
    /\ pxPc = "start"
    /\ IF ~pxUrl.wellFormed \/ ~HostAllowed(pxUrl)
       THEN /\ pxResult' = Failure("BAD_REQUEST")
            /\ pxPc' = "done"
            /\ UNCHANGED <<pxTimer, pxRequests>>
       ELSE /\ pxTimer' = TRUE
            /\ pxRequests' = Append(pxRequests, [method |-> "HEAD", url |-> pxUrl])
            /\ pxPc' = "head"
            /\ UNCHANGED pxResult
    /\ pxElapsed' = 0
    /\ UNCHANGED <<pxUrl, pxHead, pxBody, pxAborted, notProxy>>

\* Time passes while a fetch or the body download is awaited. A running
\* timer fires at FETCH_TIMEOUT_MS, so time passes that point only unarmed.
ProxyTick ==
    /\ pxPc \in {"head", "get", "body"}
    /\ pxElapsed < MaxWaitMs
    /\ pxTimer => pxElapsed < FETCH_TIMEOUT_MS
    /\ pxElapsed' = pxElapsed + TickMs
    /\ UNCHANGED <<pxUrl, pxPc, pxTimer, pxRequests, pxHead, pxBody, pxAborted, pxResult,
                   notProxy>>

\* The timer calls controller.abort(): the awaited fetch rejects with an
\* AbortError, which the catch block turns into TIMEOUT.
ProxyAbort ==
    /\ pxPc \in {"head", "get", "body"}
    /\ pxTimer
    /\ pxElapsed >= FETCH_TIMEOUT_MS
    /\ pxAborted' = TRUE
    /\ pxTimer' = FALSE
    /\ pxResult' = Failure("TIMEOUT")
    /\ pxPc' = "done"
    /\ UNCHANGED <<pxUrl, pxElapsed, pxRequests, pxHead, pxBody, notProxy>>

\* The awaited fetch or arrayBuffer() rejects with a network error.
ProxyFetchFails ==
    /\ pxPc \in {"head", "get", "body"}
    /\ pxResult' = Failure("INTERNAL_SERVER_ERROR")
    /\ pxPc' = "done"
    /\ UNCHANGED <<pxUrl, pxElapsed, pxTimer, pxRequests, pxHead, pxBody, pxAborted,
                   notProxy>>

\* The HEAD response arrives: clearTimeout, status check, content-length
\* check, then setTimeout and the GET fetch.
ProxyHeadResponse(ok, contentLength) ==
    /\ pxPc = "head"
    /\ pxHead' = [received |-> TRUE, ok |-> ok, contentLength |-> contentLength]
    /\ IF ~ok
       THEN /\ pxResult' = Failure("INTERNAL_SERVER_ERROR")
            /\ pxPc' = "done"
            /\ pxTimer' = FALSE
            /\ UNCHANGED pxRequests
       ELSE IF HeadTooLarge(contentLength)
       THEN /\ pxResult' = Failure("PAYLOAD_TOO_LARGE")
            /\ pxPc' = "done"
            /\ pxTimer' = FALSE
            /\ UNCHANGED pxRequests
       ELSE /\ pxTimer' = TRUE
            /\ pxRequests' = Append(pxRequests, [method |-> "GET", url |-> pxUrl])
            /\ pxPc' = "get"
            /\ UNCHANGED pxResult
    /\ pxElapsed' = 0
    /\ UNCHANGED <<pxUrl, pxBody, pxAborted, notProxy>>

\* The GET response (status and headers) arrives: clearTimeout, status
\* check, then await response.arrayBuffer() with no timer running.
ProxyGetResponse(ok) ==
    /\ pxPc = "get"
    /\ pxTimer' = FALSE
    /\ IF ~ok
       THEN /\ pxResult' = Failure("INTERNAL_SERVER_ERROR")
            /\ pxPc' = "done"
       ELSE /\ pxPc' = "body"
            /\ UNCHANGED pxResult
    /\ pxElapsed' = 0
    /\ UNCHANGED <<pxUrl, pxRequests, pxHead, pxBody, pxAborted, notProxy>>

\* The body has been downloaded: size recheck, then the data URI is returned.
ProxyBodyDone(size) ==
    /\ pxPc = "body"
    /\ pxBody' = size
    /\ pxResult' = IF BodyTooLarge(size) THEN Failure("PAYLOAD_TOO_LARGE") ELSE Success(size)
    /\ pxPc' = "done"
    /\ UNCHANGED <<pxUrl, pxElapsed, pxTimer, pxRequests, pxHead, pxAborted, notProxy>>

IdleProxy ==
    /\ pxUrl = [wellFormed |-> FALSE, host |-> "evil.example"]
    /\ pxPc = "idle"
    /\ pxElapsed = 0
    /\ pxTimer = FALSE
    /\ pxRequests = <<>>
    /\ pxHead = NoHead
    /\ pxBody = NoBody
    /\ pxAborted = FALSE
    /\ pxResult = Pending

InitProxy ==
    /\ pxUrl \in ProxyInputs
    /\ pxPc = "start"
    /\ pxElapsed = 0
    /\ pxTimer = FALSE
    /\ pxRequests = <<>>
    /\ pxHead = NoHead
    /\ pxBody = NoBody
    /\ pxAborted = FALSE
    /\ pxResult = Pending

NextProxy ==
    \/ ProxyStart
    \/ ProxyTick
    \/ ProxyAbort
    \/ ProxyFetchFails
    \/ \E ok \in BOOLEAN, cl \in ContentLengths : ProxyHeadResponse(ok, cl)
    \/ \E ok \in BOOLEAN : ProxyGetResponse(ok)
    \/ \E size \in BodySizes : ProxyBodyDone(size)

\* C3: a proxyImage call whose URL's hostname is not on the allow-list issues
\* no network request (neither HEAD nor GET) and ends with BAD_REQUEST; only
\* allow-listed hostnames are ever fetched or answered with image data.
C3_AllowListOnly ==
    /\ (pxPc # "idle" /\ hostname(pxUrl) \notin ALLOWED_IMAGE_DOMAINS) =>
          /\ pxRequests = <<>>
          /\ pxResult.kind # "ok"
          /\ pxPc = "done" => pxResult = Failure("BAD_REQUEST")
    /\ \A i \in 1..Len(pxRequests) :
          hostname(pxRequests[i].url) \in ALLOWED_IMAGE_DOMAINS

\* Witness of C3: a well-formed URL on a look-alike host was refused.
C3_Witness ==
    /\ pxPc = "done"
    /\ pxUrl.wellFormed
    /\ pxUrl.host = "cards.scryfall.io.evil.example"
    /\ pxResult = Failure("BAD_REQUEST")
    /\ pxRequests = <<>>

\* C4: proxyImage never returns more than MAX_IMAGE_SIZE_BYTES of image data:
\* a successful HEAD response whose content-length exceeds the threshold ends
\* the call with PAYLOAD_TOO_LARGE before any GET is issued, and a downloaded
\* body over the threshold ends it with PAYLOAD_TOO_LARGE too, whatever the
\* HEAD response's content-length said (absent, unparsable or smaller).
C4_SizeCapped ==
    /\ pxResult.kind = "ok" => pxResult.size <= MAX_IMAGE_SIZE_BYTES
    /\ (pxHead.received /\ pxHead.ok /\ pxHead.contentLength.present
          /\ pxHead.contentLength.numeric
          /\ pxHead.contentLength.n > MAX_IMAGE_SIZE_BYTES) =>
          /\ pxPc = "done"
          /\ pxResult = Failure("PAYLOAD_TOO_LARGE")
          /\ \A i \in 1..Len(pxRequests) : pxRequests[i].method # "GET"
    /\ (pxBody # NoBody /\ pxBody > MAX_IMAGE_SIZE_BYTES) =>
          /\ pxPc = "done"
          /\ pxResult = Failure("PAYLOAD_TOO_LARGE")

\* Witness of C4: the HEAD response carried no content-length and the body
\* downloaded was over the threshold.
C4_Witness ==
    /\ pxPc = "done"
    /\ pxHead.received /\ pxHead.ok /\ ~pxHead.contentLength.present
    /\ pxBody = MAX_IMAGE_SIZE_BYTES + 1
    /\ pxResult = Failure("PAYLOAD_TOO_LARGE")

\* C5: every phase of a proxyImage call (HEAD request, GET response, body
\* download) is capped at FETCH_TIMEOUT_MS: the call is never still waiting
\* after that long, and a call that ran into the cap ends with TIMEOUT, never
\* with INTERNAL_SERVER_ERROR.
C5_EveryPhaseTimeCapped ==
    /\ pxPc \in {"head", "get", "body"} => pxElapsed <= FETCH_TIMEOUT_MS
    /\ (pxPc = "done" /\ (pxAborted \/ pxElapsed > FETCH_TIMEOUT_MS)) =>
          pxResult = Failure("TIMEOUT")

-----------------------------------------------------------------------------
(* scryfallRouter.autocompleteCardName and scryfallRouter.getCardArts.      *)

\* Cards in a search response, names in an autocomplete response.
MaxCards == 2
MaxNames == 2

\* A field the JSON payload does not carry (undefined in the handler).
Missing == "<missing>"

\* art_crop values: two art URLs per card pool, and a string that is no URL.
ArtUrls == {"https://cards.scryfall.io/art_crop/a1.jpg",
            "https://cards.scryfall.io/art_crop/a2.jpg",
            "https://cards.scryfall.io/art_crop/a3.jpg"}
NotAUrl == "not-a-url"

A1 == "https://cards.scryfall.io/art_crop/a1.jpg"
A2 == "https://cards.scryfall.io/art_crop/a2.jpg"
A3 == "https://cards.scryfall.io/art_crop/a3.jpg"

Face(art, artist) == [art |-> art, artist |-> artist]

FaceLists == { <<>>, <<Face(A2, "Bob")>>, <<Face(A1, Missing), Face(A3, Missing)>> }

\* Cards as Scryfall documents them.
WellFormedCards ==
    [id : {"p1", "p2"}, set : {"neo"}, artist : {"Alice"},
     art : {Missing, A1, A2}, faces : FaceLists]
    \cup { [id |-> "p3", set |-> "MH2", artist |-> Missing, art |-> A3, faces |-> <<>>] }

\* Cards of a malformed payload: a field missing, or an art_crop that is no URL.
MalformedCards ==
    { [id |-> Missing, set |-> "neo", artist |-> "Alice", art |-> A1, faces |-> <<>>],
      [id |-> "p1", set |-> Missing, artist |-> "Alice", art |-> A1, faces |-> <<>>],
      [id |-> "p1", set |-> Missing, artist |-> "Alice", art |-> Missing, faces |-> <<>>],
      [id |-> "p1", set |-> "neo", artist |-> "Alice", art |-> NotAUrl, faces |-> <<>>],
      [id |-> "p2", set |-> "neo", artist |-> "Alice", art |-> Missing,
       faces |-> <<Face(NotAUrl, "Bob")>>] }

ScryCards == WellFormedCards \cup MalformedCards

CardNames == {"Sol Ring", "Solemn Simulacrum"}

\* What Scryfall does with the request.
\*   networkError: fetch rejects          httpError: response.ok is false
\*   invalidJson:  response.json() rejects jsonNull: the body is JSON null
\*   errorObject:  { object: "error" }     missingData: no data field
\*   payload:      a list or catalog with its data
UpstreamKinds == {"networkError", "httpError", "invalidJson", "jsonNull", "errorObject",
                  "missingData", "payload"}

Upstream(kind, cards, names) == [kind |-> kind, cards |-> cards, names |-> names]

\* Inputs of the two procedures with their lengths.
ScryQueries == { [text |-> "", len |-> 0], [text |-> "s", len |-> 1],
                 [text |-> "sol ring", len |-> 8] }

ScryCalls ==
    { [proc |-> p, input |-> q, upstream |-> Upstream(k, <<>>, <<>>)] :
        p \in {"autocompleteCardName", "getCardArts"}, q \in ScryQueries,
        k \in UpstreamKinds \ {"payload"} }
    \cup { [proc |-> "autocompleteCardName", input |-> q,
            upstream |-> Upstream("payload", <<>>, n)] :
             q \in ScryQueries, n \in SeqsUpTo(CardNames, MaxNames) }
    \cup { [proc |-> "getCardArts", input |-> q,
            upstream |-> Upstream("payload", c, <<>>)] :
             q \in ScryQueries, c \in SeqsUpTo(ScryCards, MaxCards) }

\* Results of a procedure call as the caller sees them.
Returned(value) == [kind |-> "ok", code |-> "", value |-> value]
ReturnedUndefined == [kind |-> "undefined", code |-> "", value |-> <<>>]
Thrown(code) == [kind |-> "error", code |-> code, value |-> <<>>]
NoResult == [kind |-> "pending", code |-> "", value |-> <<>>]

toUpperCase(str) == IF str = "neo" THEN "NEO" ELSE str

Art(artUrl, set, scryfallPrintId, artist) ==
    [artUrl |-> artUrl, set |-> set, scryfallPrintId |-> scryfallPrintId, artist |-> artist]

\* seenArtUrls.has(url) of a handler that never records a URL as seen
SeenNever(collected, url) == FALSE

\* seenArtUrls.has(url)
Seen(collected, url) == \E i \in 1..Len(collected) : collected[i].artUrl = url

\* card.card_faces.forEach(face => ...) over the faces still to visit.
RECURSIVE collectFaces(_, _, _)
collectFaces(card, faces, collected) ==
    IF faces = <<>> THEN collected
    ELSE LET face == Head(faces)
             next == IF face.art # Missing /\ ~Seen(collected, face.art)
                     THEN Append(collected,
                                 Art(face.art, toUpperCase(card.set), card.id,
                                     IF face.artist # Missing THEN face.artist
                                     ELSE card.artist))
                     ELSE collected
         IN  collectFaces(card, Tail(faces), next)

\* data.data.forEach(card => ...) over the cards still to visit.
RECURSIVE collectArts(_, _)
collectArts(cards, collected) ==
    IF cards = <<>> THEN collected
    ELSE LET card == Head(cards)
             own == IF card.art # Missing /\ ~Seen(collected, card.art)
                    THEN Append(collected,
                                Art(card.art, toUpperCase(card.set), card.id, card.artist))
                    ELSE collected
         IN  collectArts(Tail(cards), collectFaces(card, card.faces, own))

\* card.set.toUpperCase() is evaluated on a card without a set: a TypeError.
RECURSIVE collectThrows(_, _)
collectThrows(cards, collected) ==
    IF cards = <<>> THEN FALSE
    ELSE LET card == Head(cards)
             pushesOwn == card.art # Missing /\ ~Seen(collected, card.art)
             own == IF pushesOwn
                    THEN Append(collected, Art(card.art, card.set, card.id, card.artist))
                    ELSE collected
             pushesFace == \E i \in 1..Len(card.faces) :
                              /\ card.faces[i].art # Missing
                              /\ ~Seen(own, card.faces[i].art)
         IN  \/ card.set = Missing /\ (pushesOwn \/ pushesFace)
             \/ collectThrows(Tail(cards), collectFaces(card, card.faces, own))

\* .output(z.array(z.object({ artUrl: z.string().url(), set: z.string(),
\*   scryfallPrintId: z.string(), artist: z.string().optional() })))
outputValid(arts) ==
    \A i \in 1..Len(arts) :
        /\ arts[i].artUrl \in ArtUrls
        /\ arts[i].set # Missing
        /\ arts[i].scryfallPrintId # Missing

\* .input(z.object({ query: z.string().min(2) })) / .input(z.object({ cardName: z.string() }))
inputValid(proc, input) == proc = "autocompleteCardName" => input.len >= 2

\* Input validation and the early return on an empty input.
ScryStart ==
    /\ scPc = "start"
    /\ IF ~inputValid(scIn.proc, scIn.input)
       THEN scResult' = Thrown("BAD_REQUEST") /\ scPc' = "done"
       ELSE IF scIn.input.len = 0
       THEN scResult' = Returned(<<>>) /\ scPc' = "done"
       ELSE scPc' = "fetching" /\ UNCHANGED scResult
    /\ UNCHANGED <<scIn, notScry>>

\* await fetchScryfall(...) settles; a rejection and a non-2xx status are
\* logged and answered with [].
ScryFetchSettles ==
    /\ scPc = "fetching"
    /\ IF scIn.upstream.kind \in {"networkError", "httpError"}
       THEN scResult' = Returned(<<>>) /\ scPc' = "done"
       ELSE scPc' = "parsing" /\ UNCHANGED scResult
    /\ UNCHANGED <<scIn, notScry>>

\* await response.json() and the rest of the handler's try block.
ScryHandle ==
    /\ scPc = "parsing"
    /\ LET up == scIn.upstream
       IN  scResult' =
             IF up.kind \in {"invalidJson", "jsonNull", "errorObject"} THEN Returned(<<>>)
             ELSE IF scIn.proc = "autocompleteCardName"
             THEN IF up.kind = "missingData" THEN ReturnedUndefined ELSE Returned(up.names)
             ELSE IF up.kind = "missingData" THEN Returned(<<>>)
             ELSE IF collectThrows(up.cards, <<>>) THEN Returned(<<>>)
             ELSE Returned(collectArts(up.cards, <<>>))
    /\ scPc' = "returned"
    /\ UNCHANGED <<scIn, notScry>>

\* The procedure's output parser (getCardArts declares one) checks what the
\* handler returned before it reaches the caller.
ScryOutput ==
    /\ scPc = "returned"
    /\ scResult' = IF scIn.proc = "getCardArts" /\ ~outputValid(scResult.value)
                   THEN Thrown("INTERNAL_SERVER_ERROR") ELSE scResult
    /\ scPc' = "done"
    /\ UNCHANGED <<scIn, notScry>>

IdleScry ==
    /\ scIn = [proc |-> "getCardArts", input |-> [text |-> "", len |-> 0],
               upstream |-> Upstream("networkError", <<>>, <<>>)]
    /\ scPc = "idle"
    /\ scResult = NoResult

InitScry ==
    /\ scIn \in ScryCalls
    /\ scPc = "start"
    /\ scResult = NoResult

NextScry ==
    \/ ScryStart
    \/ ScryFetchSettles
    \/ ScryHandle
    \/ ScryOutput

\* An upstream outcome other than a payload as Scryfall documents it.
UpstreamFailed(up) ==
    \/ up.kind # "payload"
    \/ \E i \in 1..Len(up.cards) : up.cards[i] \in MalformedCards

\* C6: autocompleteCardName and getCardArts, called with a valid input, never
\* surface an error to their caller, whatever the upstream outcome (network
\* failure, non-2xx status, Scryfall error object, malformed payload such as
\* missing fields or an art_crop that is no URL): on every failure they return
\* the empty list.
C6_NeverSurfacesError ==
    (scPc = "done" /\ inputValid(scIn.proc, scIn.input)) =>
        /\ scResult.kind # "error"
        /\ UpstreamFailed(scIn.upstream) => scResult = Returned(<<>>)

\* The art_crop values of the response in document order (each card's own,
\* then those of its faces), each with the position of its card.
RECURSIVE ArtOccurrences(_, _)
ArtOccurrences(cards, k) ==
    IF k > Len(cards) THEN <<>>
    ELSE LET card == cards[k]
             own == IF card.art # Missing
                    THEN << [url |-> card.art, card |-> k] >> ELSE <<>>
             faces == [i \in 1..Len(card.faces) |->
                         [url |-> card.faces[i].art, card |-> k]]
         IN  own \o SelectSeq(faces, LAMBDA o : o.url # Missing)
                 \o ArtOccurrences(cards, k + 1)

\* Where a URL occurs first in the response.
FirstOccurrence(occ, url) ==
    CHOOSE i \in 1..Len(occ) :
        occ[i].url = url /\ \A j \in 1..(i - 1) : occ[j].url # url

\* A getCardArts call answered with a list of cards as Scryfall documents them.
AnsweredWithCards ==
    /\ scPc = "done"
    /\ scIn.proc = "getCardArts"
    /\ scIn.input.len > 0
    /\ scIn.upstream.kind = "payload"
    /\ \A i \in 1..Len(scIn.upstream.cards) : scIn.upstream.cards[i] \in WellFormedCards

\* C20: the list getCardArts returns holds no two entries with the same
\* artUrl and holds every distinct art_crop URL found on any returned card or
\* card face, in the order of first occurrence, each with the upper-cased set
\* code and the print id of the card on which it first appeared.
C20_DistinctArtsInOrder ==
    AnsweredWithCards =>
        LET cards == scIn.upstream.cards
            occ == ArtOccurrences(cards, 1)
            arts == scResult.value
            first(i) == FirstOccurrence(occ, arts[i].artUrl)
        IN  /\ scResult.kind = "ok"
            /\ \A i, j \in 1..Len(arts) : arts[i].artUrl = arts[j].artUrl => i = j
            /\ {arts[i].artUrl : i \in 1..Len(arts)} = {occ[i].url : i \in 1..Len(occ)}
            /\ \A i, j \in 1..Len(arts) : i < j => first(i) < first(j)
            /\ \A i \in 1..Len(arts) :
                  /\ arts[i].set = toUpperCase(cards[occ[first(i)].card].set)
                  /\ arts[i].scryfallPrintId = cards[occ[first(i)].card].id

\* An art carried by two cards with different print ids, the second card
\* bringing a new art on a face: two entries, the shared art under the first
\* card's id.
C20_Witness ==
    /\ AnsweredWithCards
    /\ Len(scIn.upstream.cards) = 2
    /\ scIn.upstream.cards[1].id = "p1" /\ scIn.upstream.cards[2].id = "p2"
    /\ scIn.upstream.cards[1].art = A1 /\ scIn.upstream.cards[2].art = A1
    /\ scIn.upstream.cards[1].faces = <<>>
    /\ scIn.upstream.cards[2].faces = << Face(A2, "Bob") >>
    /\ scResult = Returned(<< Art(A1, "NEO", "p1", "Alice"), Art(A2, "NEO", "p2", "Bob") >>)

-----------------------------------------------------------------------------
(* The usage ledger: artRouter.recordArtUsage and                           *)
(* deckRouter.saveOrUpdateDeckName over the tables CardArtUsage and Deck.   *)

\* Mutations issued in one behaviour: by clients that do not wait for one
\* another, and by a client that issues each after the one before completed.
MaxReqs == 2
MaxCalls == 3

\* z.string().min(1).max(100) on the deck name
MinNameLen == 1
MaxNameLen == 100

\* Deck names are strings, modelled as sequences of characters.
DeckNames == { <<"B", "u", "r", "n">>, <<"b", "u", "r", "n">>, <<>> }

Lowers == << "a", "b", "c", "d", "e", "f", "g", "h", "i", "j", "k", "l", "m",
            "n", "o", "p", "q", "r", "s", "t", "u", "v", "w", "x", "y", "z" >>
Uppers == << "A", "B", "C", "D", "E", "F", "G", "H", "I", "J", "K", "L", "M",
            "N", "O", "P", "Q", "R", "S", "T", "U", "V", "W", "X", "Y", "Z" >>

toLowerCaseChar(c) ==
    IF \E i \in DOMAIN Uppers : Uppers[i] = c
    THEN Lowers[CHOOSE i \in DOMAIN Uppers : Uppers[i] = c] ELSE c
toLowerCase(str) == [i \in DOMAIN str |-> toLowerCaseChar(str[i])]

PrintIds == {"p1", "p2"}

\* The mutations a client can issue.
ArtCalls == [kind : {"art"}, key : {A1}, cardId : PrintIds]
            \cup {[kind |-> "art", key |-> NotAUrl, cardId |-> "p1"]}
DeckCalls == [kind : {"deck"}, key : DeckNames, cardId : {""}]

\* .input(...) of the two mutations
ledgerInputValid(call) ==
    IF call.kind = "art" THEN call.key \in ArtUrls
    ELSE Len(call.key) >= MinNameLen /\ Len(call.key) <= MaxNameLen

NoOutcome == [kind |-> "pending", code |-> ""]
Resolved == [kind |-> "ok", code |-> ""]
Rejected(code) == [kind |-> "error", code |-> code]

\* A row is inserted under the table's unique index on field key: a second row
\* with the same key is refused (Prisma error P2002).
dbInsert(table, row, key) ==
    IF \E r \in table : r[key] = row[key]
    THEN [ok |-> FALSE, rows |-> table]
    ELSE [ok |-> TRUE, rows |-> table \cup {row}]

artKey == "scryfallArtUrl"
deckKey == "name"

\* cuid(): an id no other row of the table has.
newId(table) == Cardinality(table) + 1

\* ctx.db.cardArtUsage.upsert without its where/update branch
artUpsertCreateOnly(table, url, cardId, ts) ==
    dbInsert(table,
             [id |-> newId(table), scryfallCardId |-> cardId, scryfallArtUrl |-> url,
              lastUsedAt |-> ts, createdAt |-> ts],
             artKey)

\* ctx.db.cardArtUsage.upsert whose update branch leaves lastUsedAt alone
artUpsertKeepsTimestamp(table, url, cardId, ts) ==
    IF \E r \in table : r.scryfallArtUrl = url
    THEN [ok |-> TRUE,
          rows |-> { IF r.scryfallArtUrl = url
                     THEN [r EXCEPT !.scryfallCardId = cardId]
                     ELSE r : r \in table }]
    ELSE dbInsert(table,
                  [id |-> newId(table), scryfallCardId |-> cardId, scryfallArtUrl |-> url,
                   lastUsedAt |-> ts, createdAt |-> ts],
                  artKey)

\* ctx.db.cardArtUsage.upsert({ where: { scryfallArtUrl }, update: {
\*   scryfallCardId, lastUsedAt: new Date() }, create: { scryfallCardId,
\*   scryfallArtUrl } }), executed by the database as one statement.
artUpsert(table, url, cardId, ts) ==
    IF \E r \in table : r.scryfallArtUrl = url
    THEN [ok |-> TRUE,
          rows |-> { IF r.scryfallArtUrl = url
                     THEN [r EXCEPT !.scryfallCardId = cardId, !.lastUsedAt = ts]
                     ELSE r : r \in table }]
    ELSE dbInsert(table,
                  [id |-> newId(table), scryfallCardId |-> cardId, scryfallArtUrl |-> url,
                   lastUsedAt |-> ts, createdAt |-> ts],
                  artKey)

\* ctx.db.deck.upsert matching the name without regard to case
deckUpsertCaseInsensitive(table, name, ts) ==
    IF \E r \in table : toLowerCase(r.name) = toLowerCase(name)
    THEN [ok |-> TRUE,
          rows |-> { IF toLowerCase(r.name) = toLowerCase(name)
                     THEN [r EXCEPT !.lastUsedAt = ts] ELSE r : r \in table }]
    ELSE dbInsert(table,
                  [id |-> newId(table), name |-> name, lastUsedAt |-> ts,
                   createdAt |-> ts],
                  deckKey)

\* ctx.db.deck.upsert whose update branch rewrites the whole row
deckUpsertRewrites(table, name, ts) ==
    IF \E r \in table : r.name = name
    THEN [ok |-> TRUE,
          rows |-> { IF r.name = name
                     THEN [r EXCEPT !.lastUsedAt = ts, !.createdAt = ts] ELSE r :
                     r \in table }]
    ELSE dbInsert(table,
                  [id |-> newId(table), name |-> name, lastUsedAt |-> ts,
                   createdAt |-> ts],
                  deckKey)

\* ctx.db.deck.upsert({ where: { name }, update: { lastUsedAt: new Date() },
\*   create: { name } }), executed by the database as one statement.
deckUpsert(table, name, ts) ==
    IF \E r \in table : r.name = name
    THEN [ok |-> TRUE,
          rows |-> { IF r.name = name THEN [r EXCEPT !.lastUsedAt = ts] ELSE r :
                     r \in table }]
    ELSE dbInsert(table,
                  [id |-> newId(table), name |-> name, lastUsedAt |-> ts,
                   createdAt |-> ts],
                  deckKey)

\* The client issues a mutation (recordArtUsageMutation.mutate or
\* saveDeckMutation.mutate); it is on its way to the server.
IssueMutation(call) ==
    /\ Len(reqs) < MaxReqs
    /\ reqs' = Append(reqs, [call |-> call, pc |-> "issued", ts |-> 0, fault |-> FALSE,
                             after |-> Len(commits), outcome |-> NoOutcome])
    /\ UNCHANGED <<cardArtUsage, deck, now, commits, notLedger>>

\* A client issues a mutation once every earlier one has completed.
IssueAfterCompletion(call) ==
    /\ Len(reqs) < MaxCalls
    /\ \A i \in 1..Len(reqs) : reqs[i].pc = "done"
    /\ reqs' = Append(reqs, [call |-> call, pc |-> "issued", ts |-> 0, fault |-> FALSE,
                             after |-> Len(commits), outcome |-> NoOutcome])
    /\ UNCHANGED <<cardArtUsage, deck, now, commits, notLedger>>

\* The procedure starts: input validation, then the arguments of the upsert
\* are built (the clock is read: new Date() in the update branch, @updatedAt
\* and @default(now()) in the create branch) and the query is sent to the
\* database. Every reading of the clock is later than the one before.
HandlerStart(i) ==
    /\ reqs[i].pc = "issued"
    /\ IF ledgerInputValid(reqs[i].call)
       THEN /\ reqs' = [reqs EXCEPT ![i] = [@ EXCEPT !.pc = "querying", !.ts = now]]
            /\ now' = now + 1
       ELSE /\ reqs' = [reqs EXCEPT ![i] =
                          [@ EXCEPT !.pc = "done", !.outcome = Rejected("BAD_REQUEST")]]
            /\ UNCHANGED now
    /\ UNCHANGED <<cardArtUsage, deck, commits, notLedger>>

\* The database statement of a handler that writes even when it then fails.
DbExecutesWritesThenFails(i, fault) ==
    /\ reqs[i].pc = "querying"
    /\ LET r == reqs[i]
           out == IF r.call.kind = "art"
                  THEN artUpsert(cardArtUsage, r.call.key, r.call.cardId, r.ts)
                  ELSE deckUpsert(deck, r.call.key, r.ts)
           ok == ~fault /\ out.ok
       IN  /\ cardArtUsage' = IF r.call.kind = "art" THEN out.rows ELSE cardArtUsage
           /\ deck' = IF r.call.kind = "deck" THEN out.rows ELSE deck
           /\ commits' = IF ok THEN Append(commits, i) ELSE commits
           /\ reqs' = [reqs EXCEPT ![i] =
                         [@ EXCEPT !.pc = "done", !.fault = fault,
                                   !.outcome = IF ok THEN Resolved
                                               ELSE Rejected("INTERNAL_SERVER_ERROR")]]
    /\ UNCHANGED <<now, notLedger>>

\* The database executes the upsert, or fails (connection lost, ...); the
\* handler returns the row or its catch block throws INTERNAL_SERVER_ERROR.
DbExecutes(i, fault) ==
    /\ reqs[i].pc = "querying"
    /\ LET r == reqs[i]
           out == IF r.call.kind = "art"
                  THEN artUpsert(cardArtUsage, r.call.key, r.call.cardId, r.ts)
                  ELSE deckUpsert(deck, r.call.key, r.ts)
           ok == ~fault /\ out.ok
       IN  /\ cardArtUsage' = IF ok /\ r.call.kind = "art" THEN out.rows ELSE cardArtUsage
           /\ deck' = IF ok /\ r.call.kind = "deck" THEN out.rows ELSE deck
           /\ commits' = IF ok THEN Append(commits, i) ELSE commits
           /\ reqs' = [reqs EXCEPT ![i] =
                         [@ EXCEPT !.pc = "done", !.fault = fault,
                                   !.outcome = IF ok THEN Resolved
                                               ELSE Rejected("INTERNAL_SERVER_ERROR")]]
    /\ UNCHANGED <<now, notLedger>>

InitLedger ==
    /\ cardArtUsage = {}
    /\ deck = {}
    /\ reqs = <<>>
    /\ commits = <<>>
    /\ now = 1

NextLedger ==
    \/ \E call \in ArtCalls \cup DeckCalls : IssueMutation(call)
    \/ \E i \in 1..Len(reqs) : HandlerStart(i)
    \/ \E i \in 1..Len(reqs), fault \in BOOLEAN : DbExecutes(i, fault)

NextLedgerSeq ==
    \/ \E call \in ArtCalls \cup DeckCalls : IssueAfterCompletion(call)
    \/ \E i \in 1..Len(reqs) : HandlerStart(i)
    \/ \E i \in 1..Len(reqs), fault \in BOOLEAN : DbExecutes(i, fault)

\* The committed upserts on the key of call c, in the order the database ran them.
CommitsOn(c) ==
    SelectSeq(commits, LAMBDA i : reqs[i].call.kind = c.kind /\ reqs[i].call.key = c.key)

\* The rows of the ledger holding the key of call c.
RowsOf(c) ==
    IF c.kind = "art" THEN {r \in cardArtUsage : r.scryfallArtUrl = c.key}
    ELSE {r \in deck : r.name = c.key}

\* C7: when recordArtUsage has been called twice in a row with the same
\* (artUrl, cardId), the second call issued after the first completed, and no
\* other upsert on that artUrl ran since, exactly one record holds the artUrl,
\* with that cardId and with lastUsedAt the second call's timestamp.
C7_ArtUpsertIdempotent ==
    \A j \in 1..Len(reqs), k \in 1..Len(commits) :
        LET c == reqs[j].call
            on == CommitsOn(c)
        IN  (/\ c.kind = "art"
             /\ Len(on) >= 2
             /\ on[Len(on)] = j
             /\ commits[k] = on[Len(on) - 1]
             /\ k <= reqs[j].after
             /\ reqs[commits[k]].call = c)
            => /\ reqs[j].outcome = Resolved
               /\ Cardinality(RowsOf(c)) = 1
               /\ \A r \in RowsOf(c) :
                     /\ r.scryfallCardId = c.cardId
                     /\ r.lastUsedAt = reqs[j].ts
                     /\ r.lastUsedAt >= reqs[commits[k]].ts

\* Witness of C7: the same (artUrl, cardId) recorded twice in a row, at
\* different times.
C7_Witness ==
    /\ Len(reqs) = 2 /\ commits = <<1, 2>>
    /\ reqs[1].call = reqs[2].call
    /\ reqs[1].call.kind = "art"
    /\ reqs[2].after = 1
    /\ reqs[1].ts < reqs[2].ts
    /\ \E r \in cardArtUsage : r.createdAt = reqs[1].ts /\ r.lastUsedAt = reqs[2].ts

\* C8: a saveOrUpdateDeckName that finds its name in the Deck table changes
\* only that row's lastUsedAt (to the timestamp the call read): the row's id,
\* name and createdAt, every other Deck row and the CardArtUsage table stay as
\* they were, and no row is added.
C8_DeckUpdateFrame ==
    [][\A i \in 1..Len(reqs) :
          (/\ reqs[i].call.kind = "deck"
           /\ reqs[i].pc = "querying"
           /\ reqs'[i].pc = "done"
           /\ ~reqs'[i].fault
           /\ \E d \in deck : d.name = reqs[i].call.key)
          => /\ reqs'[i].outcome = Resolved
             /\ \E d \in deck :
                   /\ d.name = reqs[i].call.key
                   /\ deck' = (deck \ {d}) \cup {[d EXCEPT !.lastUsedAt = reqs[i].ts]}
             /\ Cardinality(deck') = Cardinality(deck)
             /\ cardArtUsage' = cardArtUsage]_vars

\* Witness of C8: a deck name saved a second time, later than the first, next
\* to another deck's row.
C8_Witness ==
    /\ \E d \in deck : d.createdAt < d.lastUsedAt
    /\ Cardinality(deck) = 2
    /\ \E k \in 1..Len(commits) : k > 1 /\
          \E m \in 1..(k - 1) : reqs[commits[m]].call = reqs[commits[k]].call
                                /\ reqs[commits[k]].call.kind = "deck"

\* C9: the ledger never holds two CardArtUsage rows with the same artUrl nor
\* two Deck rows with the same name, and names are keys as written: every
\* name a committed upsert carried has its own row, so names that differ only
\* in case are distinct rows.
C9_UniqueKeys ==
    /\ \A r1, r2 \in cardArtUsage : r1.scryfallArtUrl = r2.scryfallArtUrl => r1 = r2
    /\ \A d1, d2 \in deck : d1.name = d2.name => d1 = d2
    /\ \A k \in 1..Len(commits) : Cardinality(RowsOf(reqs[commits[k]].call)) = 1
    /\ \A r \in cardArtUsage : \E k \in 1..Len(commits) :
          reqs[commits[k]].call.kind = "art" /\ reqs[commits[k]].call.key = r.scryfallArtUrl
    /\ \A d \in deck : \E k \in 1..Len(commits) :
          reqs[commits[k]].call.kind = "deck" /\ reqs[commits[k]].call.key = d.name

\* Witness of C9: two deck names that differ only in case held in two rows.
C9_Witness ==
    /\ \E d1, d2 \in deck : d1.name # d2.name /\ toLowerCase(d1.name) = toLowerCase(d2.name)
    /\ Cardinality(deck) = 2

\* The upserts on the key of call c that reached the database.
QueriesOn(c) ==
    {i \in 1..Len(reqs) : /\ reqs[i].call.kind = c.kind /\ reqs[i].call.key = c.key
                          /\ reqs[i].pc \in {"querying", "done"}
                          /\ reqs[i].outcome # Rejected("BAD_REQUEST")}

\* C10: whatever the interleaving of the upserts on one key (the same deck
\* name from both sides, the same art from two quadrants), every upsert the
\* database executed succeeded, and once all of them have completed exactly one
\* row holds the key, its lastUsedAt being the timestamp one of them wrote.
C10_ConcurrentUpserts ==
    \A j \in 1..Len(reqs) :
        LET c == reqs[j].call
            on == QueriesOn(c)
        IN  /\ (reqs[j].pc = "done" /\ j \in on /\ ~reqs[j].fault) =>
                  reqs[j].outcome = Resolved
            /\ (j \in on /\ \A i \in on : reqs[i].pc = "done" /\ ~reqs[i].fault) =>
                  /\ Cardinality(RowsOf(c)) = 1
                  /\ \A r \in RowsOf(c) : \E i \in on : r.lastUsedAt = reqs[i].ts

\* Witness of C10: two upserts on one key in flight together with different
\* timestamps, the one that read the clock later committing first.
C10_Witness ==
    /\ Len(reqs) >= 2
    /\ reqs[1].call = reqs[2].call
    /\ reqs[1].after = 0 /\ reqs[2].after = 0
    /\ reqs[1].pc = "done" /\ reqs[2].pc = "done"
    /\ reqs[1].ts < reqs[2].ts
    /\ commits = <<2, 1>>
    /\ \A r \in RowsOf(reqs[1].call) : r.lastUsedAt = reqs[1].ts

\* The timestamps taken by the upserts on the key of call c that the
\* database has committed.
TimestampsOn(c) == { reqs[CommitsOn(c)[k]].ts : k \in DOMAIN CommitsOn(c) }

\* C26: a ledger record's lastUsedAt never moves backwards: after any
\* interleaving of upserts on the same artUrl or deck name, lastUsedAt
\* equals the latest timestamp taken by any of those upserts.
C26_LastUsedAtNeverBackwards ==
    [][ /\ \A before \in cardArtUsage, after \in cardArtUsage' :
               after.scryfallArtUrl = before.scryfallArtUrl
                   => after.lastUsedAt >= before.lastUsedAt
        /\ \A before \in deck, after \in deck' :
               after.name = before.name => after.lastUsedAt >= before.lastUsedAt
        /\ \A c \in ArtCalls \cup DeckCalls : \A row \in RowsOf(c)' :
               \A ts \in TimestampsOn(c)' : row.lastUsedAt >= ts
      ]_vars

-----------------------------------------------------------------------------
(* HomePage: the form (deck names, thumbnail type, stream date), the four   *)
(* card slots and the export (handleDownload).                              *)

\* Characters typed into a deck name beyond the names of the examples.
MaxTyped == 3

\* null
Null == "<null>"

\* Object.values(cardStates) visits the slots in this order.
CardSlots == << "topLeft", "bottomLeft", "topRight", "bottomRight" >>
SlotSet == { CardSlots[i] : i \in DOMAIN CardSlots }

initialCardState == [name |-> "", artUrl |-> Null, scryfallCardId |-> Null]

NoCards == [slot \in SlotSet |-> initialCardState]

NoDownload == [triggered |-> FALSE, fileName |-> <<>>, issued |-> 0]

toUpperCaseChar(c) ==
    IF \E i \in DOMAIN Lowers : Lowers[i] = c
    THEN Uppers[CHOOSE i \in DOMAIN Lowers : Lowers[i] = c] ELSE c

\* \w and \s of the regular expressions (a space is the only white space the
\* names here hold)
isWordChar(c) ==
    \/ \E i \in DOMAIN Lowers : c = Lowers[i] \/ c = Uppers[i]
    \/ c \in {"0", "1", "2", "3", "4", "5", "6", "7", "8", "9", "_"}
isSpace(c) == c = " "

\* str.trim(): what lies between the first and the last character that is no
\* white space
trim(str) ==
    LET inked == { i \in DOMAIN str : ~isSpace(str[i]) }
    IN  IF inked = {} THEN <<>>
        ELSE SubSeq(str, CHOOSE i \in inked : \A j \in inked : i <= j,
                         CHOOSE i \in inked : \A j \in inked : i >= j)

\* str.replace(/[^\w\s-]/gi, '')
removeSpecial(str) == SelectSeq(str, LAMBDA c : isWordChar(c) \/ isSpace(c) \/ c = "-")

\* The positions of a string, in order.
Positions(str) == [i \in DOMAIN str |-> i]

\* str.replace(/\s+|-+/g, ' '): every run of white space and every run of
\* hyphens becomes one space: the first character of a run is replaced, the
\* others of the run go.
replaceRuns(str) ==
    LET kind(i) == IF isSpace(str[i]) THEN "space"
                   ELSE IF str[i] = "-" THEN "hyphen" ELSE "none"
        kept == SelectSeq(Positions(str),
                          LAMBDA i : kind(i) = "none" \/ i = 1 \/ kind(i - 1) # kind(i))
    IN  [k \in DOMAIN kept |-> IF kind(kept[k]) = "none" THEN str[kept[k]] ELSE " "]

\* str.split(' '): the words between the spaces.
splitWords(str) ==
    LET spaces == SelectSeq(Positions(str), LAMBDA i : str[i] = " ")
        cuts == <<0>> \o spaces \o <<Len(str) + 1>>
    IN  [k \in 1..(Len(cuts) - 1) |-> SubSeq(str, cuts[k] + 1, cuts[k + 1] - 1)]

\* word.charAt(0).toUpperCase() + word.slice(1).toLowerCase(), without the
\* lower-casing
capitalizeKeepsRest(word) ==
    IF word = <<>> THEN <<>>
    ELSE <<toUpperCaseChar(Head(word))>> \o Tail(word)

\* word.charAt(0).toUpperCase() + word.slice(1).toLowerCase()
capitalize(word) ==
    IF word = <<>> THEN <<>>
    ELSE <<toUpperCaseChar(Head(word))>> \o toLowerCase(Tail(word))

\* words.map(capitalize).join('')
RECURSIVE joinCapitalized(_)
joinCapitalized(words) ==
    IF words = <<>> THEN <<>>
    ELSE capitalize(Head(words)) \o joinCapitalized(Tail(words))

toPascalCase(str) ==
    joinCapitalized(splitWords(replaceRuns(removeSpecial(str))))

\* streamDate.replace(/\//g, '-')
replaceSlashes(str) == [i \in DOMAIN str |-> IF str[i] = "/" THEN "-" ELSE str[i]]

\* The string literals of handleDownload.
Livestream == << "L", "i", "v", "e", "s", "t", "r", "e", "a", "m", "-" >>
NoDate == << "N", "o", "D", "a", "t", "e" >>
Deck1 == << "D", "e", "c", "k", "1" >>
Deck2 == << "D", "e", "c", "k", "2" >>
Vs == << "V", "s" >>
Png == << ".", "p", "n", "g" >>

\* let fileName = ...
fileNameOf(type, date, left, right) ==
    IF type = "Stream"
    THEN LET formattedDate == IF replaceSlashes(date) # <<>>
                              THEN replaceSlashes(date) ELSE NoDate
         IN  Livestream \o formattedDate \o Png
    ELSE toPascalCase(IF left # <<>> THEN left ELSE Deck1) \o Vs
             \o toPascalCase(IF right # <<>> THEN right ELSE Deck2) \o Png

DeckCall(name) == [kind |-> "deck", key |-> name, cardId |-> ""]
ArtCall(url, cardId) == [kind |-> "art", key |-> url, cardId |-> cardId]

\* The two saveDeckMutation.mutate calls of an export that tests and sends
\* the names as typed.
deckMutationsUntrimmed(left, right) ==
    (IF left # <<>> THEN << DeckCall(left) >> ELSE <<>>)
        \o (IF right # <<>> THEN << DeckCall(right) >> ELSE <<>>)

\* if (leftDeckName.trim()) saveDeckMutation.mutate({ name: leftDeckName.trim() })
\* and the same for the right name
deckMutations(left, right) ==
    (IF trim(left) # <<>> THEN << DeckCall(trim(left)) >> ELSE <<>>)
        \o (IF trim(right) # <<>> THEN << DeckCall(trim(right)) >> ELSE <<>>)

\* Object.values(cardStates).forEach(cardState => { if (cardState.artUrl &&
\*   cardState.scryfallCardId) recordArtUsageMutation.mutate(...) }) from slot k on
RECURSIVE artMutations(_, _)
artMutations(cards, k) ==
    IF k > Len(CardSlots) THEN <<>>
    ELSE LET cardState == cards[CardSlots[k]]
         IN  (IF cardState.artUrl # Null /\ cardState.scryfallCardId # Null
              THEN << ArtCall(cardState.artUrl, cardState.scryfallCardId) >> ELSE <<>>)
                 \o artMutations(cards, k + 1)

\* A mutation handed to the client library: on its way to the server.
Issued(call) == [call |-> call, pc |-> "issued", ts |-> 0, fault |-> FALSE,
                 after |-> Len(commits), outcome |-> NoOutcome]

\* The Download button: stage tells whether the canvas handle gave a stage.
\* The mutations are handed over first, their results awaited by no one;
\* then the file name is built and link.click() triggers the download.
handleDownload(stage) ==
    /\ ~isArtDialogOpen
    /\ IF stage
       THEN LET calls == deckMutations(leftDeckName, rightDeckName)
                             \o artMutations(cardStates, 1)
            IN  /\ reqs' = reqs \o [i \in DOMAIN calls |-> Issued(calls[i])]
                /\ download' = [triggered |-> TRUE,
                                fileName |-> fileNameOf(thumbnailType, streamDate,
                                                        leftDeckName, rightDeckName),
                                issued |-> Len(reqs')]
       ELSE UNCHANGED <<reqs, download>>
    /\ UNCHANGED <<cardArtUsage, deck, commits, now, formVars, cardVars, logoVars, notPage>>

\* The deck name inputs call setLeftDeckName / setRightDeckName on every
\* change; both are disabled in Stream mode.
setLeftDeckName(value) ==
    /\ thumbnailType # "Stream"
    /\ ~isArtDialogOpen
    /\ leftDeckName' = value
    /\ UNCHANGED <<rightDeckName, thumbnailType, streamDate, cardVars, download, logoVars,
                   ledgerVars, notPage>>

setRightDeckName(value) ==
    /\ thumbnailType # "Stream"
    /\ ~isArtDialogOpen
    /\ rightDeckName' = value
    /\ UNCHANGED <<leftDeckName, thumbnailType, streamDate, cardVars, download, logoVars,
                   ledgerVars, notPage>>

\* The stream date input, rendered in Stream mode only.
setStreamDate(value) ==
    /\ thumbnailType = "Stream"
    /\ ~isArtDialogOpen
    /\ streamDate' = value
    /\ UNCHANGED <<leftDeckName, rightDeckName, thumbnailType, cardVars, download, logoVars,
                   ledgerVars, notPage>>

\* The radio group's handler without the clearing of the names.
setThumbnailTypeKeepsNames(type) ==
    /\ type # thumbnailType
    /\ ~isArtDialogOpen
    /\ thumbnailType' = type
    /\ cardStates' = NoCards
    /\ UNCHANGED <<leftDeckName, rightDeckName, streamDate, isArtDialogOpen,
                   currentSlotForArtSelection, artUrlsForSelection,
                   selectedCardNameForArt, artsCache, download, logoVars, ledgerVars,
                   notPage>>

\* The effect on [thumbnailType] without the reset of the slots.
setThumbnailTypeKeepsCards(type) ==
    /\ type # thumbnailType
    /\ ~isArtDialogOpen
    /\ thumbnailType' = type
    /\ IF type = "Stream"
       THEN leftDeckName' = <<>> /\ rightDeckName' = <<>>
       ELSE UNCHANGED <<leftDeckName, rightDeckName>>
    /\ UNCHANGED <<cardStates, streamDate, isArtDialogOpen, currentSlotForArtSelection,
                   artUrlsForSelection, selectedCardNameForArt, artsCache, download,
                   logoVars, ledgerVars, notPage>>

\* The radio group changes the thumbnail type and the effect on
\* [thumbnailType] runs: the four slots are reset and, in Stream mode, the two
\* deck names are cleared.
setThumbnailType(type) ==
    /\ type # thumbnailType
    /\ ~isArtDialogOpen
    /\ thumbnailType' = type
    /\ cardStates' = NoCards
    /\ IF type = "Stream"
       THEN leftDeckName' = <<>> /\ rightDeckName' = <<>>
       ELSE UNCHANGED <<leftDeckName, rightDeckName>>
    /\ UNCHANGED <<streamDate, isArtDialogOpen, currentSlotForArtSelection,
                   artUrlsForSelection, selectedCardNameForArt, artsCache, download,
                   logoVars, ledgerVars, notPage>>

\* The page as first rendered (the effect on [thumbnailType] has run once and
\* reset slots that were empty already).
InitForm ==
    /\ leftDeckName = <<>>
    /\ rightDeckName = <<>>
    /\ thumbnailType = "Video"
    /\ streamDate = <<>>
    /\ download = NoDownload

\* useState of the slots, the dialog and the selection; nothing is cached.
InitCards ==
    /\ cardStates = NoCards
    /\ isArtDialogOpen = FALSE
    /\ currentSlotForArtSelection = Null
    /\ artUrlsForSelection = <<>>
    /\ selectedCardNameForArt = ""
    /\ artsCache = [name \in CardNames |-> [status |-> "none", data |-> <<>>]]

\* No logo (LogoDetails | null); an optional number is <<>> when undefined and
\* <<n>> when it is the number n.
NoLogo == [loaded |-> FALSE, calculatedWidth |-> <<0, 1>>]
Unset == <<>>

\* useState of the logos and the custom logo controls, before any image loaded.
InitLogo ==
    /\ defaultLogoDetails = NoLogo
    /\ customLogoDetails = NoLogo
    /\ customLogoUrl = Null
    /\ logoX = Unset
    /\ logoY = Unset
    /\ logoYOffset = 18
    /\ logoFile = Null
    /\ logoReads = {}
    /\ logoLoads = {}
    /\ customLogoSrc = Null

InitPage == InitForm /\ InitCards /\ InitLogo

-----------------------------------------------------------------------------
(* The export on its own: handleDownload on every page state of a bounded   *)
(* set.                                                                     *)

\* Mutations handed over in one behaviour.
MaxIssued == 6

NameAlphabet == {"b", "B", " ", "-", "!", "_"}

MonoRed == << "M", "o", "n", "o", " ", "R", "e", "d" >>
AzoriusControl == << "A", "z", "o", "r", "i", "u", "s", " ",
                     "C", "o", "n", "t", "r", "o", "l" >>

\* Deck names: everything of up to MaxTyped characters, and the examples.
TypedNames == SeqsUpTo(NameAlphabet, MaxTyped) \cup {MonoRed, AzoriusControl}

StreamDates == { <<>>, << "1", "/", "2" >>, << "1", "/", "2", "/", "2", "5" >>,
                 << "M", "a", "y", " ", "1" >> }

\* Arts as getCardArts returns them.
Art1 == Art(A1, "NEO", "p1", "Alice")
Art2 == Art(A2, "NEO", "p2", "Bob")
Art3 == Art(A3, "MH2", "p3", "Alice")

\* A slot holding a card with one of its arts chosen.
Filled(name, art) ==
    [name |-> name, artUrl |-> art.artUrl, scryfallCardId |-> art.scryfallPrintId]

\* Slots as the selection flow leaves them: empty, a name still without art,
\* or a name with an art.
SlotFillings ==
    { initialCardState, [initialCardState EXCEPT !.name = "Sol Ring"],
      Filled("Sol Ring", Art1), Filled("Sol Ring", Art2) }

ExportCards ==
    { NoCards,
      [NoCards EXCEPT !["topLeft"] = Filled("Sol Ring", Art1)],
      [NoCards EXCEPT !["topLeft"] = Filled("Sol Ring", Art1),
                      !["bottomRight"] = Filled("Sol Ring", Art1)],
      [NoCards EXCEPT !["bottomLeft"] = [initialCardState EXCEPT !.name = "Sol Ring"],
                      !["topRight"] = Filled("Sol Ring", Art2)],
      [slot \in SlotSet |->
          IF slot = "topLeft" THEN Filled("Sol Ring", Art2)
          ELSE IF slot = "bottomLeft" THEN Filled("Solemn Simulacrum", Art3)
          ELSE Filled("Sol Ring", Art1)] }

\* Page states an export can start from. In Stream mode both names are empty;
\* in Video mode the stream date plays no part.
InitExport ==
    /\ thumbnailType \in {"Video", "Stream"}
    /\ leftDeckName \in (IF thumbnailType = "Stream" THEN {<<>>} ELSE TypedNames)
    /\ rightDeckName \in (IF thumbnailType = "Stream" THEN {<<>>}
                          ELSE {<<>>, AzoriusControl, <<"b", " ">>})
    /\ streamDate \in (IF thumbnailType = "Stream" THEN StreamDates ELSE {<<>>})
    /\ cardStates \in ExportCards
    /\ download = NoDownload
    /\ isArtDialogOpen = FALSE
    /\ currentSlotForArtSelection = Null
    /\ artUrlsForSelection = <<>>
    /\ selectedCardNameForArt = ""
    /\ artsCache = [name \in CardNames |-> [status |-> "none", data |-> <<>>]]

NextExport ==
    \E stage \in BOOLEAN : Len(reqs) < MaxIssued /\ handleDownload(stage)

\* The mutations the step issued.
NewRequests == SubSeq(reqs', Len(reqs) + 1, Len(reqs'))

\* How many of the requests carry the call.
CountCalls(rs, call) == Cardinality({ i \in DOMAIN rs : rs[i].call = call })

\* A step in which an export triggered a download.
ExportStep == download'.triggered /\ (download' # download \/ Len(reqs') > Len(reqs))

\* C11: on export with a stage available, exactly one deck-name upsert is
\* issued for each of the two deck-name fields whose trimmed value is
\* non-empty, carrying the trimmed name, and exactly one art-usage upsert for
\* each quadrant whose slot has a selected art, keyed by that art's URL with
\* that slot's print id; none is issued for an empty name or an empty
\* quadrant, and all are issued before the download is triggered.
C11_ExportUpserts ==
    [][ExportStep =>
        LET fields == {leftDeckName, rightDeckName}
            names == { trim(f) : f \in fields } \ {<<>>}
            filled == { slot \in SlotSet : cardStates[slot].artUrl # Null }
            expected == { DeckCall(n) : n \in names }
                        \cup { ArtCall(cardStates[slot].artUrl,
                                       cardStates[slot].scryfallCardId) : slot \in filled }
            issuedNow == { NewRequests[i].call : i \in DOMAIN NewRequests }
        IN  /\ issuedNow = expected
            /\ \A n \in names :
                  CountCalls(NewRequests, DeckCall(n)) =
                      (IF trim(leftDeckName) = n THEN 1 ELSE 0)
                      + (IF trim(rightDeckName) = n THEN 1 ELSE 0)
            /\ \A slot \in filled :
                  LET call == ArtCall(cardStates[slot].artUrl,
                                      cardStates[slot].scryfallCardId)
                  IN  CountCalls(NewRequests, call) =
                          Cardinality({ other \in filled :
                              /\ cardStates[other].artUrl = cardStates[slot].artUrl
                              /\ cardStates[other].scryfallCardId =
                                     cardStates[slot].scryfallCardId })
            /\ \A i \in DOMAIN NewRequests : NewRequests[i].pc = "issued"
            /\ download'.issued = Len(reqs')
    ]_vars

\* An export has issued five upserts: one name (the other field holds only a
\* space) and one per quadrant, two quadrants sharing an art.
C11_Witness ==
    /\ download.triggered
    /\ download.issued = 5
    /\ Len(reqs) = 5
    /\ trim(leftDeckName) = <<>> /\ leftDeckName # <<>>
    /\ reqs[1].call = DeckCall(AzoriusControl)
    /\ reqs[2].call = ArtCall(A2, "p2")
    /\ reqs[3].call = ArtCall(A3, "p3")
    /\ reqs[4].call = ArtCall(A1, "p1")
    /\ reqs[5].call = ArtCall(A1, "p1")

\* PascalCase read off the characters: a character is kept when it is a word
\* character; it starts a word when a space or hyphen lies between it and the
\* word character before it, or when no word character comes before it; the
\* first character of a word is upper-cased and the others lower-cased.
PascalCased(str) ==
    LET wordChars == SelectSeq(Positions(str), LAMBDA i : isWordChar(str[i]))
        startsWord(k) ==
            \/ k = 1
            \/ \E j \in (wordChars[k - 1] + 1)..(wordChars[k] - 1) :
                   isSpace(str[j]) \/ str[j] = "-"
    IN  [k \in DOMAIN wordChars |->
            IF startsWord(k) THEN toUpperCaseChar(str[wordChars[k]])
            ELSE toLowerCaseChar(str[wordChars[k]])]

\* C13: the download's file name is Livestream-<date>.png in Stream mode, the
\* date being the stream date with every '/' replaced by '-', or NoDate when
\* it is empty; in Video mode it is <PascalCase(left)>Vs<PascalCase(right)>.png
\* with an empty deck name standing for Deck1 / Deck2. PascalCase drops
\* characters other than word characters, spaces and hyphens, splits on spaces
\* and hyphens, and upper-cases the first and lower-cases the other letters of
\* every word: 'Mono Red' and 'Azorius Control' give MonoRedVsAzoriusControl.png.
C13_FileName ==
    [][ExportStep =>
        download'.fileName =
            IF thumbnailType = "Stream"
            THEN Livestream
                 \o (IF streamDate = <<>> THEN NoDate
                     ELSE [i \in DOMAIN streamDate |->
                              IF streamDate[i] = "/" THEN "-" ELSE streamDate[i]])
                 \o Png
            ELSE PascalCased(IF leftDeckName = <<>> THEN Deck1 ELSE leftDeckName)
                 \o Vs
                 \o PascalCased(IF rightDeckName = <<>> THEN Deck2 ELSE rightDeckName)
                 \o Png
    ]_vars

\* The example of the claim has been exported.
C13_Witness ==
    /\ thumbnailType = "Video"
    /\ leftDeckName = MonoRed
    /\ rightDeckName = AzoriusControl
    /\ download.triggered
    /\ download.fileName =
         << "M", "o", "n", "o", "R", "e", "d", "V", "s", "A", "z", "o", "r", "i", "u", "s",
            "C", "o", "n", "t", "r", "o", "l", ".", "p", "n", "g" >>

-----------------------------------------------------------------------------
(* The form and the export: deck names, thumbnail type, stream date.        *)

Burn == << "B", "u", "r", "n" >>

FormNames == { <<>>, <<" ">>, Burn }
FormDates == { <<>>, << "1", "/", "2" >> }

\* ThumbnailCanvas renders the two deck-name texts in Video mode only.
drawsDeckNames(type) == type = "Video"

NextForm ==
    \/ \E value \in FormNames : setLeftDeckName(value)
    \/ \E value \in FormNames : setRightDeckName(value)
    \/ \E value \in FormDates : setStreamDate(value)
    \/ \E type \in {"Video", "Stream"} : setThumbnailType(type)
    \/ \E stage \in BOOLEAN : Len(reqs) < MaxIssued /\ handleDownload(stage)

\* C14: setting the mode to Stream clears both deck-name fields and no
\* deck-name text is drawn; while the mode remains Stream both names stay
\* empty (their inputs are disabled), so an export in Stream mode issues no
\* deck-name upsert.
C14_StreamHasNoDeckNames ==
    /\ [](thumbnailType = "Stream" =>
            /\ leftDeckName = <<>>
            /\ rightDeckName = <<>>
            /\ ~drawsDeckNames(thumbnailType))
    /\ [][(ExportStep /\ thumbnailType = "Stream") =>
            \A i \in DOMAIN NewRequests : NewRequests[i].call.kind # "deck"]_vars

\* A deck name was exported in Video mode, the mode was then set to Stream and
\* a dated stream thumbnail exported: no second deck-name upsert.
C14_Witness ==
    /\ thumbnailType = "Stream"
    /\ leftDeckName = <<>> /\ rightDeckName = <<>>
    /\ download.triggered
    /\ download.fileName = Livestream \o << "1", "-", "2" >> \o Png
    /\ Len(reqs) = 1
    /\ reqs[1].call = DeckCall(Burn)

-----------------------------------------------------------------------------
(* The export together with the ledger: the mutations an export issued are  *)
(* handled by the server while the page goes on.                            *)

\* A name one character longer than the input validation admits.
LongName == [i \in 1..(MaxNameLen + 1) |-> "x"]

InitPersist ==
    /\ thumbnailType = "Video"
    /\ leftDeckName \in { <<>>, << " ", "B", "u", "r", "n", " " >>, LongName }
    /\ rightDeckName \in { <<>>, Burn }
    /\ streamDate = <<>>
    /\ cardStates \in { NoCards, [NoCards EXCEPT !["topLeft"] = Filled("Sol Ring", Art1)] }
    /\ download = NoDownload
    /\ isArtDialogOpen = FALSE
    /\ currentSlotForArtSelection = Null
    /\ artUrlsForSelection = <<>>
    /\ selectedCardNameForArt = ""
    /\ artsCache = [name \in CardNames |-> [status |-> "none", data |-> <<>>]]

NextPersist ==
    \/ Len(reqs) < MaxReqs /\ handleDownload(TRUE)
    \/ \E i \in 1..Len(reqs) : HandlerStart(i)
    \/ \E i \in 1..Len(reqs), fault \in BOOLEAN : DbExecutes(i, fault)

-----------------------------------------------------------------------------
(* The art selection of the page: a card picked in a slot, the getCardArts  *)
(* query observed for it, the effect on the query's result, and the dialog. *)
(* An event handler, the render that follows it and the effects of that     *)
(* render are one step.                                                     *)

\* The state the selection flow reads and writes, as one record.
ArtPage ==
    [cardStates |-> cardStates,
     currentSlotForArtSelection |-> currentSlotForArtSelection,
     selectedCardNameForArt |-> selectedCardNameForArt,
     artUrlsForSelection |-> artUrlsForSelection,
     isArtDialogOpen |-> isArtDialogOpen]

\* The state updates of handleCardSelection(slot, cardName).
handleCardSelectionOn(p, slot, cardName) ==
    IF cardName # ""
    THEN [p EXCEPT !.cardStates[slot] = [initialCardState EXCEPT !.name = cardName],
                   !.selectedCardNameForArt = cardName,
                   !.currentSlotForArtSelection = slot,
                   !.artUrlsForSelection = <<>>]
    ELSE [p EXCEPT !.cardStates[slot] = [initialCardState EXCEPT !.name = cardName],
                   !.selectedCardNameForArt = "",
                   !.currentSlotForArtSelection = Null,
                   !.artUrlsForSelection = <<>>,
                   !.isArtDialogOpen = FALSE]

\* enabled: !!selectedCardNameForArt && !!currentSlotForArtSelection
queryEnabled(p) ==
    p.selectedCardNameForArt # "" /\ p.currentSlotForArtSelection # Null

\* A query that has no data (never fetched, or being fetched).
QueryPending == [isSuccess |-> FALSE, isError |-> FALSE, data |-> <<>>]

\* What cardArtsQuery shows to a render: the cache entry of the key
\* { cardName: selectedCardNameForArt }.  data is read under isSuccess only.
cardArtsQuery(p, cache) ==
    IF p.selectedCardNameForArt = "" THEN QueryPending
    ELSE LET entry == cache[p.selectedCardNameForArt] IN
         CASE entry.status = "success" ->
                  [isSuccess |-> TRUE, isError |-> FALSE, data |-> entry.data]
           [] entry.status = "error" ->
                  [isSuccess |-> FALSE, isError |-> TRUE, data |-> <<>>]
           [] OTHER -> QueryPending

\* The query cache after the observer took the options of a render: a key
\* newly observed that has no data is fetched; data younger than staleTime
\* is not fetched again.
startFetch(before, p, cache) ==
    IF /\ queryEnabled(p)
       /\ \/ ~queryEnabled(before)
          \/ before.selectedCardNameForArt # p.selectedCardNameForArt
       /\ cache[p.selectedCardNameForArt].status \in {"none", "error"}
    THEN [cache EXCEPT ![p.selectedCardNameForArt] =
                           [status |-> "pending", data |-> <<>>]]
    ELSE cache

\* The dependencies of the effect on the query's result that can change
\* (handleCardSelection is a useCallback without dependencies).
effectDeps(p, cache) ==
    << cardArtsQuery(p, cache), p.selectedCardNameForArt, p.currentSlotForArtSelection >>

\* The effect on the query's result, on the state and result of its render.
artsEffect(p, q) ==
    LET slot == p.currentSlotForArtSelection IN
    IF q.isSuccess
    THEN IF Len(q.data) = 1
         THEN IF slot # Null
              THEN [p EXCEPT !.cardStates[slot].artUrl = q.data[1].artUrl,
                             !.cardStates[slot].scryfallCardId = q.data[1].scryfallPrintId,
                             !.currentSlotForArtSelection = Null,
                             !.selectedCardNameForArt = "",
                             !.artUrlsForSelection = <<>>]
              ELSE p
         ELSE IF Len(q.data) > 1
         THEN [p EXCEPT !.artUrlsForSelection = q.data,
                        !.isArtDialogOpen = IF slot # Null THEN TRUE ELSE @]
         ELSE IF slot # Null
              THEN handleCardSelectionOn([p EXCEPT !.artUrlsForSelection = <<>>], slot, "")
              ELSE [p EXCEPT !.artUrlsForSelection = <<>>]
    ELSE IF q.isError
    THEN IF slot # Null
         THEN handleCardSelectionOn([p EXCEPT !.artUrlsForSelection = <<>>], slot, "")
         ELSE [p EXCEPT !.artUrlsForSelection = <<>>]
    ELSE p

\* The page after the renders that follow an update from (before, cacheBefore)
\* to (p, cache): the effect runs after a render whose dependencies differ
\* from those of the render before it.
rendered(before, cacheBefore, p, cache) ==
    IF effectDeps(p, cache) = effectDeps(before, cacheBefore) THEN p
    ELSE LET p2 == artsEffect(p, cardArtsQuery(p, cache)) IN
         IF effectDeps(p2, cache) = effectDeps(p, cache) THEN p2
         ELSE artsEffect(p2, cardArtsQuery(p2, cache))

\* The state after a step.
commitArtPage(p, cache) ==
    /\ cardStates' = p.cardStates
    /\ currentSlotForArtSelection' = p.currentSlotForArtSelection
    /\ selectedCardNameForArt' = p.selectedCardNameForArt
    /\ artUrlsForSelection' = p.artUrlsForSelection
    /\ isArtDialogOpen' = p.isArtDialogOpen
    /\ artsCache' = cache
    /\ UNCHANGED <<formVars, download, logoVars, ledgerVars, notPage>>

\* onValueChange of a slot's combobox: handleCardSelection(slot, cardName).
handleCardSelection(slot, cardName) ==
    /\ ~isArtDialogOpen
    /\ LET p == handleCardSelectionOn(ArtPage, slot, cardName)
           cache == startFetch(ArtPage, p, artsCache)
       IN commitArtPage(rendered(ArtPage, artsCache, p, cache), cache)

\* handleSelect of the combobox: picking the current value again clears it.
handleSelect(slot, currentValue) ==
    handleCardSelection(slot, IF currentValue = cardStates[slot].name THEN ""
                               ELSE currentValue)

\* What a getCardArts request can come back with: the arts of the card's
\* prints (two for one card; one or none for the other), or an error.
ArtAnswers(name) ==
    IF name = "Sol Ring"
    THEN { [status |-> "success", data |-> <<Art1, Art2>>],
           [status |-> "error", data |-> <<>>] }
    ELSE { [status |-> "success", data |-> <<Art3>>],
           [status |-> "success", data |-> <<>>] }

\* A request that applies its answer to the selection awaited when it comes
\* back, whatever card it was sent for.
QuerySettlesAppliesAny(name, answer) ==
    /\ artsCache[name].status = "pending"
    /\ LET cache == [artsCache EXCEPT ![name] = answer]
           q == [isSuccess |-> answer.status = "success",
                 isError |-> answer.status = "error",
                 data |-> answer.data]
       IN commitArtPage(artsEffect(ArtPage, q), cache)

\* The request for a card's arts comes back.
QuerySettles(name, answer) ==
    /\ artsCache[name].status = "pending"
    /\ LET cache == [artsCache EXCEPT ![name] = answer]
       IN commitArtPage(rendered(ArtPage, artsCache, ArtPage, cache), cache)

\* A click on an art of the dialog.
handleArtSelectionFromDialog(selectedArt) ==
    /\ isArtDialogOpen
    /\ \E i \in DOMAIN artUrlsForSelection : artUrlsForSelection[i] = selectedArt
    /\ LET slot == currentSlotForArtSelection
           p1 == IF slot # Null
                 THEN [ArtPage EXCEPT !.cardStates[slot].artUrl = selectedArt.artUrl,
                                      !.cardStates[slot].scryfallCardId =
                                          selectedArt.scryfallPrintId]
                 ELSE ArtPage
           \* closeArtDialogAndReset
           p == [p1 EXCEPT !.isArtDialogOpen = FALSE]
       IN commitArtPage(rendered(ArtPage, artsCache, p, artsCache), artsCache)

\* onOpenChange of the dialog (Cancel): handleDialogClose(false).
handleDialogClose(open) ==
    /\ isArtDialogOpen
    /\ ~open
    /\ LET slot == currentSlotForArtSelection
           p1 == [ArtPage EXCEPT !.isArtDialogOpen = open]
           p2 == IF slot # Null /\ cardStates[slot].artUrl = Null
                 THEN handleCardSelectionOn(p1, slot, "")
                 ELSE p1
           p == [p2 EXCEPT !.currentSlotForArtSelection = Null,
                           !.selectedCardNameForArt = "",
                           !.artUrlsForSelection = <<>>]
       IN commitArtPage(rendered(ArtPage, artsCache, p, artsCache), artsCache)

\* The swap button of a side is enabled when one of its slots has a name.
hasCards(side) ==
    IF side = "left"
    THEN cardStates["topLeft"].name # "" \/ cardStates["bottomLeft"].name # ""
    ELSE cardStates["topRight"].name # "" \/ cardStates["bottomRight"].name # ""

\* The swap button of a side.
swapCards(side) ==
    /\ ~isArtDialogOpen
    /\ hasCards(side)
    /\ cardStates' =
          IF side = "left"
          THEN [cardStates EXCEPT !["topLeft"] = cardStates["bottomLeft"],
                                  !["bottomLeft"] = cardStates["topLeft"]]
          ELSE [cardStates EXCEPT !["topRight"] = cardStates["bottomRight"],
                                  !["bottomRight"] = cardStates["topRight"]]
    /\ UNCHANGED <<isArtDialogOpen, currentSlotForArtSelection, artUrlsForSelection,
                   selectedCardNameForArt, artsCache, formVars, download, logoVars,
                   ledgerVars, notPage>>

NextArtDialog ==
    \/ \E slot \in SlotSet, currentValue \in CardNames : handleSelect(slot, currentValue)
    \/ \E name \in CardNames : \E answer \in ArtAnswers(name) : QuerySettles(name, answer)
    \/ \E art \in {Art1, Art2, Art3} : handleArtSelectionFromDialog(art)
    \/ handleDialogClose(FALSE)
    \/ \E side \in {"left", "right"} : swapCards(side)
    \/ \E type \in {"Video", "Stream"} : setThumbnailType(type)

\* The search for a card's arts has come back with two or more arts.
SearchReturnedSeveral(name) ==
    artsCache[name].status = "success" /\ Len(artsCache[name].data) >= 2

\* A card is picked in a slot whose search result is known already: the
\* dialog is open after the step and lists the arts of the search.
C15_PickedWithKnownArts ==
    \A slot \in SlotSet, name \in CardNames :
        /\ name # cardStates[slot].name
        /\ SearchReturnedSeveral(name)
        /\ handleCardSelection(slot, name)
        => /\ isArtDialogOpen'
           /\ artUrlsForSelection' = artsCache[name].data

\* The search of the card that a slot is waiting for comes back: the dialog
\* is open after the step and lists the arts of the answer.
C15_SearchComesBack ==
    \A name \in CardNames : \A answer \in ArtAnswers(name) :
        /\ answer.status = "success"
        /\ Len(answer.data) >= 2
        /\ selectedCardNameForArt = name
        /\ currentSlotForArtSelection # Null
        /\ QuerySettles(name, answer)
        => /\ isArtDialogOpen'
           /\ artUrlsForSelection' = answer.data
           /\ \A i, j \in DOMAIN answer.data :
                  answer.data[i].artUrl = answer.data[j].artUrl => i = j
           /\ cardStates' = cardStates

\* An art of the dialog is chosen: the slot of the selection gets its URL and
\* print id, the dialog is closed, the other slots are as they were.
C15_ArtChosen ==
    \A art \in {Art1, Art2, Art3} :
        handleArtSelectionFromDialog(art)
        => /\ currentSlotForArtSelection # Null
           /\ cardStates' =
                [cardStates EXCEPT
                    ![currentSlotForArtSelection].artUrl = art.artUrl,
                    ![currentSlotForArtSelection].scryfallCardId = art.scryfallPrintId]
           /\ ~isArtDialogOpen'

\* C15: when the art search for a card selected in a slot returns two or
\* more arts, the dialog opens listing exactly those arts; choosing one sets
\* that slot's artUrl and print id, closes the dialog and leaves the other
\* three slots unchanged.
C15_DialogOpensAndAssigns ==
    [][C15_PickedWithKnownArts /\ C15_SearchComesBack /\ C15_ArtChosen]_vars

-----------------------------------------------------------------------------
(* The logo of the canvas: the default logo and an uploaded custom logo are *)
(* loaded by ThumbnailCanvas, the page holds the custom logo's URL, X, Y    *)
(* and Y offset, and the render places the logo, the bars and the texts.    *)
(* Numbers that depend on an image's width are exact quotients.             *)

\* img.naturalWidth, img.naturalHeight of a logo image (0 x 0: no intrinsic
\* size).
LogoSizes == { <<512, 512>>, <<600, 300>>, <<300, 600>>, <<0, 0>> }

\* Data URLs of uploaded files.
LogoUrls == { "data:logo1", "data:logo2" }

\* Values typed into the number inputs of the custom logo controls.
LogoXInputs == { Unset, <<0>>, <<100>>, <<333>> }
LogoYInputs == { Unset, <<0>>, <<50>> }
LogoYOffsetInputs == { 0, 18, -30 }

\* scaledWidth of img.onload.
scaledWidth(naturalWidth, naturalHeight) ==
    IF naturalWidth # 0 /\ naturalHeight # 0
    THEN RMul(RInt(TARGET_LOGO_HEIGHT), Rat(naturalWidth, naturalHeight))
    ELSE RInt(TARGET_LOGO_HEIGHT)

\* The LogoDetails that img.onload sets.
LogoDetails(naturalWidth, naturalHeight) ==
    [loaded |-> TRUE, calculatedWidth |-> scaledWidth(naturalWidth, naturalHeight)]

\* img.onload of the default logo.
DefaultLogoLoads(naturalWidth, naturalHeight) ==
    /\ ~defaultLogoDetails.loaded
    /\ defaultLogoDetails' = LogoDetails(naturalWidth, naturalHeight)
    /\ UNCHANGED <<customLogoDetails, customLogoUrl, logoX, logoY, logoYOffset,
                   logoFile, logoReads, logoLoads, customLogoSrc, formVars, cardVars,
                   download, ledgerVars, notPage>>

\* img.onerror of the default logo.
DefaultLogoFails ==
    /\ ~defaultLogoDetails.loaded
    /\ defaultLogoDetails' = NoLogo
    /\ UNCHANGED <<customLogoDetails, customLogoUrl, logoX, logoY, logoYOffset,
                   logoFile, logoReads, logoLoads, customLogoSrc, formVars, cardVars,
                   download, ledgerVars, notPage>>

\* onChange of the upload input with a file: handleLogoUpload starts a
\* FileReader on it (reader.readAsDataURL).
handleLogoUpload(url) ==
    /\ ~isArtDialogOpen
    /\ logoFile' = url
    /\ logoReads' = logoReads \cup {url}
    /\ UNCHANGED <<defaultLogoDetails, customLogoDetails, customLogoUrl, logoX, logoY,
                   logoYOffset, logoLoads, customLogoSrc, formVars, cardVars, download,
                   ledgerVars, notPage>>

\* reader.onloadend: the data URL becomes the custom logo URL and the
\* position inputs are reset.  When the URL changed, the canvas's effect on
\* [customLogoUrl] starts loading it (loadLogo); the logo shown so far stays
\* until a load ends.
ReaderLoadEnd(url) ==
    /\ url \in logoReads
    /\ logoReads' = logoReads \ {url}
    /\ customLogoUrl' = url
    /\ logoX' = Unset
    /\ logoY' = Unset
    /\ logoYOffset' = 18
    /\ logoLoads' = IF url # customLogoUrl THEN logoLoads \cup {url} ELSE logoLoads
    /\ UNCHANGED <<defaultLogoDetails, customLogoDetails, logoFile, customLogoSrc,
                   formVars, cardVars, download, ledgerVars, notPage>>

\* onChange of the upload input without a file: the custom logo URL is set
\* to null, and when it was set the canvas's effect on [customLogoUrl] drops
\* the custom logo held.
handleLogoRemoved ==
    /\ ~isArtDialogOpen
    /\ logoFile # Null
    /\ logoFile' = Null
    /\ customLogoUrl' = Null
    /\ IF customLogoUrl # Null
       THEN customLogoDetails' = NoLogo /\ customLogoSrc' = Null
       ELSE UNCHANGED <<customLogoDetails, customLogoSrc>>
    /\ UNCHANGED <<defaultLogoDetails, logoX, logoY, logoYOffset, logoReads, logoLoads,
                   formVars, cardVars, download, ledgerVars, notPage>>

\* img.onload of a custom logo image.
CustomLogoLoads(url, naturalWidth, naturalHeight) ==
    /\ url \in logoLoads
    /\ logoLoads' = logoLoads \ {url}
    /\ customLogoDetails' = LogoDetails(naturalWidth, naturalHeight)
    /\ customLogoSrc' = url
    /\ UNCHANGED <<defaultLogoDetails, customLogoUrl, logoX, logoY, logoYOffset,
                   logoFile, logoReads, formVars, cardVars, download, ledgerVars,
                   notPage>>

\* img.onerror of a custom logo image.
CustomLogoFails(url) ==
    /\ url \in logoLoads
    /\ logoLoads' = logoLoads \ {url}
    /\ customLogoDetails' = NoLogo
    /\ customLogoSrc' = Null
    /\ UNCHANGED <<defaultLogoDetails, customLogoUrl, logoX, logoY, logoYOffset,
                   logoFile, logoReads, formVars, cardVars, download, ledgerVars,
                   notPage>>

\* The number inputs, shown while a custom logo URL is set.
setLogoX(value) ==
    /\ ~isArtDialogOpen
    /\ customLogoUrl # Null
    /\ logoX' = value
    /\ UNCHANGED <<defaultLogoDetails, customLogoDetails, customLogoUrl, logoY,
                   logoYOffset,
                   logoFile, logoReads, logoLoads, customLogoSrc, formVars, cardVars,
                   download, ledgerVars, notPage>>

setLogoY(value) ==
    /\ ~isArtDialogOpen
    /\ customLogoUrl # Null
    /\ logoY' = value
    /\ UNCHANGED <<defaultLogoDetails, customLogoDetails, customLogoUrl, logoX,
                   logoYOffset,
                   logoFile, logoReads, logoLoads, customLogoSrc, formVars, cardVars,
                   download, ledgerVars, notPage>>

setLogoYOffset(value) ==
    /\ ~isArtDialogOpen
    /\ customLogoUrl # Null
    /\ logoYOffset' = value
    /\ UNCHANGED <<defaultLogoDetails, customLogoDetails, customLogoUrl, logoX, logoY,
                   logoFile, logoReads, logoLoads, customLogoSrc, formVars, cardVars,
                   download, ledgerVars, notPage>>

\* ---- the render of ThumbnailCanvas on the default canvas ----

middleX == RInt(CANVAS_WIDTH_DEFAULT \div 2)
middleY == RInt(CANVAS_HEIGHT_DEFAULT \div 2)
purpleBarY == RSub(middleY, RInt(PURPLE_BAR_HEIGHT \div 2))

\* customLogoDetails ?? defaultLogoDetails
logoToDisplay ==
    IF customLogoDetails.loaded THEN customLogoDetails ELSE defaultLogoDetails

isCustomLogoDisplayed == customLogoDetails.loaded

\* defaultLogoDetails?.calculatedWidth ?? TARGET_LOGO_HEIGHT
defaultLogoLayoutWidth ==
    IF defaultLogoDetails.loaded THEN defaultLogoDetails.calculatedWidth
    ELSE RInt(TARGET_LOGO_HEIGHT)

Half(a) == RDiv(a, RInt(2))

defaultLogoCenteredX == RSub(middleX, Half(defaultLogoLayoutWidth))

logoYOffsetConstant == 18

\* The vertical position without the constant offset.
defaultLogoCenteredYNoOffset ==
    RSub(purpleBarY, RInt(PURPLE_BAR_HEIGHT \div 2))

defaultLogoCenteredY ==
    RAdd(RSub(purpleBarY, RInt(PURPLE_BAR_HEIGHT \div 2)), RInt(logoYOffsetConstant))

deckNameTextPadding == 20

leftTextWidth == RSub(defaultLogoCenteredX, RInt(deckNameTextPadding * 2))

rightTextX ==
    RAdd(RAdd(defaultLogoCenteredX, defaultLogoLayoutWidth), RInt(deckNameTextPadding))

rightTextWidth ==
    RSub(RSub(RInt(CANVAS_WIDTH_DEFAULT), rightTextX), RInt(deckNameTextPadding))

\* value || fallback: 0 counts as not given.
falsyOr(value, fallback) ==
    IF value = Unset \/ value = <<0>> THEN fallback ELSE RInt(value[1])

\* value ?? fallback on an optional number.
nullish(value, fallback) ==
    IF value = Unset THEN fallback ELSE RInt(value[1])

finalLogoX ==
    IF logoToDisplay.loaded
    THEN IF isCustomLogoDisplayed
         THEN nullish(logoX, RSub(middleX, Half(logoToDisplay.calculatedWidth)))
         ELSE RSub(middleX, Half(logoToDisplay.calculatedWidth))
    ELSE middleX

finalLogoY ==
    IF logoToDisplay.loaded
    THEN IF isCustomLogoDisplayed
         THEN RAdd(nullish(logoY, defaultLogoCenteredY), RInt(logoYOffset))
         ELSE defaultLogoCenteredY
    ELSE middleY

\* What the render puts on the stage.
drawsLogoImage == logoToDisplay.loaded
drawsHorizontalBar == thumbnailType = "Video"
\* A stream bar drawn whatever the logo.
drawsStreamBarAlways == thumbnailType = "Stream"
drawsStreamBar == thumbnailType = "Stream" /\ logoToDisplay.loaded
drawsStreamTexts == thumbnailType = "Stream" /\ logoToDisplay.loaded

NextLogo ==
    \/ \E size \in LogoSizes : DefaultLogoLoads(size[1], size[2])
    \/ DefaultLogoFails
    \/ \E url \in LogoUrls : handleLogoUpload(url)
    \/ handleLogoRemoved
    \/ \E url \in LogoUrls : ReaderLoadEnd(url)
    \/ \E url \in LogoUrls, size \in LogoSizes : CustomLogoLoads(url, size[1], size[2])
    \/ \E url \in LogoUrls : CustomLogoFails(url)
    \/ \E value \in LogoXInputs : setLogoX(value)
    \/ \E value \in LogoYInputs : setLogoY(value)
    \/ \E value \in LogoYOffsetInputs : setLogoYOffset(value)
    \/ \E type \in {"Video", "Stream"} : setThumbnailType(type)

\* No explicit X/Y applies to the displayed logo: it is the default logo, or a
\* custom logo whose X and Y are both unset.
NoExplicitPosition ==
    /\ logoToDisplay.loaded
    /\ isCustomLogoDisplayed => logoX = Unset /\ logoY = Unset

\* x + logoWidth/2 = canvasWidth/2
HorizontallyCentered ==
    RAdd(finalLogoX, RDiv(logoToDisplay.calculatedWidth, RInt(2)))
        = Rat(CANVAS_WIDTH_DEFAULT, 2)

\* C17 as stated: with no explicit X/Y the displayed logo is horizontally
\* centered on the canvas and vertically centered on the band at the canvas's
\* vertical midpoint (y + targetHeight/2 = canvasHeight/2).
C17_CenteredBothWays ==
    NoExplicitPosition =>
        /\ HorizontallyCentered
        /\ RAdd(finalLogoY, Rat(TARGET_LOGO_HEIGHT, 2)) = Rat(CANVAS_HEIGHT_DEFAULT, 2)

\* C17, amended: with no explicit X/Y the displayed logo is horizontally
\* centered on the canvas; its top edge is one band height above the canvas's
\* vertical midpoint plus 18, and for a custom logo plus the Y offset.
C17_CenteredAcrossOffsetDown ==
    NoExplicitPosition =>
        /\ HorizontallyCentered
        /\ finalLogoY =
              RInt(CANVAS_HEIGHT_DEFAULT \div 2 - PURPLE_BAR_HEIGHT + 18
                   + (IF isCustomLogoDisplayed THEN logoYOffset ELSE 0))

\* A custom logo twice as wide as high, X and Y unset, the offset of an
\* upload: x = 186, y = 208.
C17_Witness ==
    /\ isCustomLogoDisplayed
    /\ logoX = Unset
    /\ logoY = Unset
    /\ logoYOffset = 18
    /\ logoToDisplay.calculatedWidth = RInt(588)
    /\ finalLogoX = RInt(186)
    /\ finalLogoY = RInt(208)

C19_NoLogoLayout ==
    ~defaultLogoDetails.loaded /\ ~customLogoDetails.loaded =>
        /\ ~drawsLogoImage
        /\ ~drawsStreamBar
        /\ ~drawsStreamTexts
        /\ defaultLogoLayoutWidth = RInt(TARGET_LOGO_HEIGHT)
        /\ RLt(RInt(0), leftTextWidth)
        /\ RLt(RInt(0), rightTextWidth)
        /\ leftTextWidth = RInt(293)
        /\ rightTextWidth = RInt(293)

\* Stream mode with an upload that has not given a logo, and no default logo.
C19_Witness ==
    /\ thumbnailType = "Stream"
    /\ customLogoUrl # Null
    /\ ~defaultLogoDetails.loaded
    /\ ~customLogoDetails.loaded
    /\ ~drawsStreamBar
    /\ rightTextX = RInt(647)

\* The step picks a card in the slot: the slot's name becomes another,
\* non-empty name and the other slots stay as they are.
PickedIn(slot) ==
    /\ cardStates'[slot].name \notin {"", cardStates[slot].name}
    /\ \A other \in SlotSet \ {slot} : cardStates'[other] = cardStates[other]

\* The step exchanges the two slots of a side.
SlotsSwapped ==
    /\ cardStates' # cardStates
    /\ \/ cardStates' = [cardStates EXCEPT !["topLeft"] = cardStates["bottomLeft"],
                                           !["bottomLeft"] = cardStates["topLeft"]]
       \/ cardStates' = [cardStates EXCEPT !["topRight"] = cardStates["bottomRight"],
                                           !["bottomRight"] = cardStates["topRight"]]

\* The slot and the card name selected most recently, at the end of a step:
\* those of the step's pick, else those awaited before the step.
LatestSlot ==
    IF \E slot \in SlotSet : PickedIn(slot)
    THEN CHOOSE slot \in SlotSet : PickedIn(slot)
    ELSE currentSlotForArtSelection

LatestName ==
    IF \E slot \in SlotSet : PickedIn(slot)
    THEN cardStates'[CHOOSE slot \in SlotSet : PickedIn(slot)].name
    ELSE selectedCardNameForArt

\* The arts the search for the latest name has returned.
LatestArts ==
    IF LatestName # "" /\ artsCache'[LatestName].status = "success"
    THEN artsCache'[LatestName].data ELSE <<>>

\* C21: results of superseded art searches are never applied.  The selection
\* the page awaits changes only by a pick, to the slot and name picked; an
\* open dialog lists the arts returned for the latest name and is for the
\* latest slot; and an art written to a slot (auto-assigned from a single
\* result, or chosen in the dialog) is written to the latest slot and is one
\* of the arts returned for the latest name, in whatever order the searches
\* in flight complete.
C21_OnlyLatestSearchApplied ==
    [][ /\ ( /\ selectedCardNameForArt' # ""
             /\ << currentSlotForArtSelection', selectedCardNameForArt' >>
                    # << currentSlotForArtSelection, selectedCardNameForArt >> )
            => /\ \E slot \in SlotSet : PickedIn(slot)
               /\ currentSlotForArtSelection' = LatestSlot
               /\ selectedCardNameForArt' = LatestName
        /\ isArtDialogOpen'
            => /\ LatestSlot # Null
               /\ currentSlotForArtSelection' = LatestSlot
               /\ selectedCardNameForArt' = LatestName
               /\ Len(LatestArts) >= 2
               /\ artUrlsForSelection' = LatestArts
        /\ \A slot \in SlotSet :
               ( /\ cardStates'[slot].artUrl # Null
                 /\ cardStates'[slot].artUrl # cardStates[slot].artUrl
                 /\ ~SlotsSwapped )
               => /\ slot = LatestSlot
                  /\ \E i \in DOMAIN LatestArts :
                         /\ LatestArts[i].artUrl = cardStates'[slot].artUrl
                         /\ LatestArts[i].scryfallPrintId = cardStates'[slot].scryfallCardId
                  /\ (~isArtDialogOpen => Len(LatestArts) = 1)
      ]_vars

\* Witness of C21: a card was picked in the Top Left slot, another card was
\* picked in the Top Right slot before the first search came back, both
\* searches have come back, and the dialog is open with the arts of the
\* second card while the first card's single art was not applied.
C21_Witness ==
    /\ cardStates["topLeft"] = [initialCardState EXCEPT !.name = "Solemn Simulacrum"]
    /\ cardStates["topRight"] = [initialCardState EXCEPT !.name = "Sol Ring"]
    /\ cardStates["bottomLeft"] = initialCardState
    /\ cardStates["bottomRight"] = initialCardState
    /\ artsCache["Solemn Simulacrum"] = [status |-> "success", data |-> <<Art3>>]
    /\ artsCache["Sol Ring"] = [status |-> "success", data |-> <<Art1, Art2>>]
    /\ isArtDialogOpen
    /\ currentSlotForArtSelection = "topRight"
    /\ selectedCardNameForArt = "Sol Ring"
    /\ artUrlsForSelection = <<Art1, Art2>>

\* The arts a search for a card name can return.
ArtsOf(name) ==
    UNION { {answer.data[i] : i \in DOMAIN answer.data} : answer \in ArtAnswers(name) }

\* C24: in every reachable state, every slot that has an art selected has a
\* non-empty card name and that art is one the art search returned for that
\* name, also when a top/bottom swap or a mode change happens while the art
\* search for a slot is still in flight.
C24_ArtOfSlotsName ==
    \A slot \in SlotSet :
        cardStates[slot].artUrl # Null =>
            /\ cardStates[slot].name # ""
            /\ \E art \in ArtsOf(cardStates[slot].name) :
                   /\ art.artUrl = cardStates[slot].artUrl
                   /\ art.scryfallPrintId = cardStates[slot].scryfallCardId

-----------------------------------------------------------------------------
(* The thumbnail type against the slots and the deck names: cards are       *)
(* picked and their arts assigned, names are typed, the page is exported,   *)
(* and the type is switched back and forth.                                 *)

\* The names typed into the deck name inputs (non-empty ones; emptying a
\* field by hand is a step of the form's specification).
ModeNames == FormNames \ { <<>> }

\* The slots cards are picked in.
ModeSlots == {"topLeft", "bottomRight"}

NextMode ==
    \/ \E slot \in ModeSlots, currentValue \in CardNames : handleSelect(slot, currentValue)
    \/ \E name \in CardNames : \E answer \in ArtAnswers(name) : QuerySettles(name, answer)
    \/ \E art \in {Art1, Art2, Art3} : handleArtSelectionFromDialog(art)
    \/ handleDialogClose(FALSE)
    \/ \E value \in ModeNames : setLeftDeckName(value)
    \/ \E value \in ModeNames : setRightDeckName(value)
    \/ \E type \in {"Video", "Stream"} : setThumbnailType(type)
    \/ ~download.triggered /\ handleDownload(TRUE)

\* C27: every change of thumbnail mode, in either direction, resets all four
\* card slots to empty (no name, no art, no print id); switching back to
\* Video restores neither the cards nor the deck names cleared on entering
\* Stream.
C27_ModeChangeResetsSlots ==
    [][ /\ thumbnailType' # thumbnailType
            => \A slot \in SlotSet :
                   /\ cardStates'[slot].name = ""
                   /\ cardStates'[slot].artUrl = Null
                   /\ cardStates'[slot].scryfallCardId = Null
        /\ thumbnailType' = "Stream"
            => leftDeckName' = <<>> /\ rightDeckName' = <<>>
        /\ (thumbnailType = "Stream" /\ thumbnailType' = "Video")
            => leftDeckName' = <<>> /\ rightDeckName' = <<>>
      ]_vars

\* Witness of C27: the page is in Video mode again with four empty slots and
\* two empty names, after an export that sent both names and an art of the
\* Top Left slot; the selection of that art is still the one awaited, so the
\* slot was emptied by no pick, and the names were emptied by no typing.
C27_Witness ==
    /\ thumbnailType = "Video"
    /\ cardStates = NoCards
    /\ leftDeckName = <<>> /\ rightDeckName = <<>>
    /\ download.triggered
    /\ \E i \in DOMAIN reqs : reqs[i].call = DeckCall(Burn)
    /\ \E i \in DOMAIN reqs : reqs[i].call = ArtCall(Art1.artUrl, Art1.scryfallPrintId)
    /\ currentSlotForArtSelection = "topLeft"
    /\ selectedCardNameForArt = "Sol Ring"
    /\ ~isArtDialogOpen

\* C25: after any sequence of custom-logo uploads and removals, once every
\* started image load has completed (and every file chosen has been read),
\* the displayed logo is the most recently chosen custom logo, or the default
\* logo if the custom logo was removed or failed to load, regardless of the
\* order in which the loads complete.
C25_LatestLogoDisplayed ==
    (logoReads = {} /\ logoLoads = {}) =>
        /\ logoFile = Null => ~isCustomLogoDisplayed
        /\ isCustomLogoDisplayed => customLogoSrc = logoFile

-----------------------------------------------------------------------------
(* Specifications: one per part of the program, the other parts at rest.    *)

\* SPECS-BEGIN
\* QuadrantImage alone.
InitSpecQuadrant == InitQuadrant /\ IdleFit /\ IdleProxy /\ IdleScry /\ InitLedger /\ InitPage
SpecQuadrant == InitSpecQuadrant /\ [][NextQuadrant]_vars

\* One call of calculateOptimalFontSize on each input.
InitSpecFit == InitFit /\ InitQuadrant /\ IdleProxy /\ IdleScry /\ InitLedger /\ InitPage
SpecFit == InitSpecFit /\ [][NextFit]_vars

\* One call of proxyImage on each input against every upstream behaviour.
InitSpecProxy == InitProxy /\ InitQuadrant /\ IdleFit /\ IdleScry /\ InitLedger /\ InitPage
SpecProxy == InitSpecProxy /\ [][NextProxy]_vars

\* One call of autocompleteCardName or getCardArts against every upstream outcome.
InitSpecScry == InitScry /\ InitQuadrant /\ IdleFit /\ IdleProxy /\ InitLedger /\ InitPage
SpecScry == InitSpecScry /\ [][NextScry]_vars

\* Clients issuing recordArtUsage and saveOrUpdateDeckName mutations that the
\* server handles concurrently.
InitSpecLedger == InitLedger /\ InitQuadrant /\ IdleFit /\ IdleProxy /\ IdleScry /\ InitPage
SpecLedger == InitSpecLedger /\ [][NextLedger]_vars

\* One client issuing the mutations one after another.
InitSpecLedgerSeq == InitLedger /\ InitQuadrant /\ IdleFit /\ IdleProxy /\ IdleScry /\ InitPage
SpecLedgerSeq == InitSpecLedgerSeq /\ [][NextLedgerSeq]_vars
\* handleDownload on every page state of the export's inputs.
InitSpecExport == InitExport /\ InitLogo /\ InitQuadrant /\ IdleFit /\ IdleProxy /\ IdleScry /\ InitLedger
SpecExport == InitSpecExport /\ [][NextExport]_vars

\* The form of the page and its export.
InitSpecForm == InitPage /\ InitQuadrant /\ IdleFit /\ IdleProxy /\ IdleScry /\ InitLedger
SpecForm == InitSpecForm /\ [][NextForm]_vars

\* An export and the server handling its mutations.
InitSpecPersist == InitPersist /\ InitLogo /\ InitQuadrant /\ IdleFit /\ IdleProxy /\ IdleScry /\ InitLedger
SpecPersist == InitSpecPersist /\ [][NextPersist]_vars

\* The art selection of the page against every answer of the art search.
InitSpecArtDialog == InitPage /\ InitQuadrant /\ IdleFit /\ IdleProxy /\ IdleScry /\ InitLedger
SpecArtDialog == InitSpecArtDialog /\ [][NextArtDialog]_vars

\* The logos, the custom logo controls and the thumbnail type.
InitSpecLogo == InitPage /\ InitQuadrant /\ IdleFit /\ IdleProxy /\ IdleScry /\ InitLedger
SpecLogo == InitSpecLogo /\ [][NextLogo]_vars

\* The thumbnail type switched over picked cards and typed names.
InitSpecMode == InitPage /\ InitQuadrant /\ IdleFit /\ IdleProxy /\ IdleScry /\ InitLedger
SpecMode == InitSpecMode /\ [][NextMode]_vars
\* SPECS-END

====
